---- MODULE Spec2Model ----
(***************************************************************************)
(* ValueRank: the retrying HTTP client (post_json, _post_json), the probe   *)
(* orchestrator (run_probe, process_scenario, invoke_target_model), the    *)
(* decision extractor of the summarize worker and the adapter registry.    *)
(*                                                                         *)
(* The specifications of the module:                                       *)
(*   Spec           one call of post_json / _post_json against an          *)
(*                  arbitrary sequence of transport outcomes;              *)
(*   SpecProbe      one run of run_probe over a thread pool;               *)
(*   SpecExtract    extract_decision_code_from_text applied to a text;     *)
(*   SpecSummarize  one call of run_summarize;                             *)
(*   SpecRegistry   an AdapterRegistry under register and resolve calls.   *)
(***************************************************************************)
EXTENDS Integers, Sequences, FiniteSets, TLC

VARIABLES
    \* ---- retrying HTTP client (one call) ----
    impl,                 \* which client runs: "post_json" or "_post_json"
    hpc,                  \* "loop" | "returned" | "raised"
    network_attempts,     \* base.py:118
    rate_limit_attempts,  \* base.py:117
    attempt,              \* llm_adapters.py:33 loop variable of _post_json
    posts,                \* number of requests.post calls issued
    sleeps,               \* durations passed to time.sleep, in order
    outcomes,             \* class of each POST's outcome, in order
    counters,             \* <<network_attempts, rate_limit_attempts>> seen by each POST
    last,                 \* the last POST's raw outcome
    error,                \* the raised error: [code, details_len] or NoError
    \* ---- probe orchestrator (one run) ----
    cfg,                  \* the loaded configuration, arguments and environment
    run_id,               \* generate_run_id(...)
    ppc,                  \* run_probe position
    midx,                 \* index (from 1) of the target model being processed
    model_mapping,        \* position -> [anon_id, true_model]
    queued,               \* number of scenarios submitted to the executor
    task,                 \* per scenario position: its process_scenario task
    scenario_results_map, \* dict scenario id -> ScenarioResult, in insertion order
    aggregated,           \* per model position: the list passed to aggregation
    files,                \* files written under run_dir
    adapter_log,          \* per model position: kinds of generate outcomes seen
    provider_errors,      \* number of failed provider calls so far
    pending_exc,          \* the exception propagating out of run_probe
    \* ---- decision extractor (one text) ----
    input_text,           \* argument `text` of extract_decision_code_from_text
    extracted,            \* what it returned and the return statement taken
    xpc,                  \* "idle" | "called" | "returned"
    \* ---- summarize worker (one call of run_summarize) ----
    transcript_content,   \* data["transcriptContent"]: its turns
    decision_code,        \* summarize.py:297
    decision_source,      \* summarize.py:298
    llm_calls,            \* outcomes of the generate calls of the fallback, in order
    llm_decision_code,    \* summarize.py:301
    summary,              \* the returned dict
    spc,                  \* run_summarize position
    \* ---- adapter registry ----
    adapters,             \* AdapterRegistry._adapters: provider -> adapter
    default_provider,     \* os.environ.get("VALUERANK_DEFAULT_PROVIDER")
    register_calls,       \* number of register calls after construction
    resolved,             \* outcome of the last resolve_for_model call
    rpc,                  \* "idle" | "ready"
    \* ---- mock adapter ----
    mock_log              \* the generate calls made on a MockLLMAdapter, in order

hvars == <<impl, hpc, network_attempts, rate_limit_attempts, attempt, posts,
           sleeps, outcomes, counters, last, error>>
pvars == <<cfg, run_id, ppc, midx, model_mapping, queued, task,
           scenario_results_map, aggregated, files, adapter_log,
           provider_errors, pending_exc>>
xvars == <<input_text, extracted, xpc>>
svars == <<transcript_content, decision_code, decision_source, llm_calls,
           llm_decision_code, summary, spc>>
rvars == <<adapters, default_provider, register_calls, resolved, rpc>>
mvars == <<mock_log>>
wvars == <<xvars, svars, rvars, mvars>>
vars == <<hvars, pvars, wvars>>

Min(a, b) == IF a < b THEN a ELSE b

Range(s) == {s[i] : i \in 1..Len(s)}

(***************************************************************************)
(* Retrying HTTP client                                                    *)
(***************************************************************************)

MAX_HTTP_RETRIES == 3
RETRY_BACKOFF_SECONDS == 2
MAX_RATE_LIMIT_RETRIES == 4
RATE_LIMIT_BACKOFF_SECONDS == <<30, 60, 90, 120>>
SNIPPET_LEN == 500

\* A response body: its length and where (if anywhere) a rate-limit phrase and
\* a billing phrase occur: in the first SNIPPET_LEN characters or after them.
Positions == {"none", "head", "tail"}
BodyLens == {0, SNIPPET_LEN, SNIPPET_LEN + 1}
Bodies ==
    {b \in [len : BodyLens, rl : Positions, bill : Positions] :
        /\ (b.rl = "tail" \/ b.bill = "tail") => b.len > SNIPPET_LEN
        /\ (b.rl = "head" \/ b.bill = "head") => b.len > 0}

Statuses == {200, 400, 429, 503}

Responses == [status : Statuses, body : Bodies, json_ok : BOOLEAN]

NoOutcome == [kind |-> "none"]
NoError == [code |-> "none", details_len |-> 0]

\* Mutation of Snippet: the whole body, not cut.
SnippetUncut(body) == body

\* response.text[:500]
Snippet(body) ==
    [len  |-> Min(body.len, SNIPPET_LEN),
     rl   |-> IF body.rl = "head" THEN "head" ELSE "none",
     bill |-> IF body.bill = "head" THEN "head" ELSE "none"]

HasRateLimitPattern(text) == text.rl # "none"
HasBillingPattern(text) == text.bill # "none"

\* Mutation of is_rate_limit_response: the status alone, no phrases.
is_rate_limit_by_status(status_code, response_text) == status_code = 429

is_rate_limit_response(status_code, response_text) ==
    IF status_code = 429 THEN TRUE
    ELSE HasRateLimitPattern(response_text)

\* Mutation of is_billing_exhaustion_response: no test for rate-limit phrases.
is_billing_without_precedence(status_code, response_text) ==
    IF status_code < 400 THEN FALSE
    ELSE HasBillingPattern(response_text)

is_billing_exhaustion_response(status_code, response_text) ==
    IF status_code < 400 THEN FALSE
    ELSE IF HasRateLimitPattern(response_text) THEN FALSE
    ELSE HasBillingPattern(response_text)

\* Mutation of Classify: the rate-limit test made before the billing test.
ClassifyRateLimitFirst(resp) ==
    IF resp.status >= 400
    THEN IF is_rate_limit_response(resp.status, Snippet(resp.body))
         THEN "rate_limited"
         ELSE IF is_billing_exhaustion_response(resp.status, Snippet(resp.body))
              THEN "billing"
              ELSE "http_error"
    ELSE IF resp.json_ok THEN "ok" ELSE "bad_json"

\* The branch of post_json a response takes (base.py:127-174).
Classify(resp) ==
    IF resp.status >= 400
    THEN IF is_billing_exhaustion_response(resp.status, Snippet(resp.body))
         THEN "billing"
         ELSE IF is_rate_limit_response(resp.status, Snippet(resp.body))
              THEN "rate_limited"
              ELSE "http_error"
    ELSE IF resp.json_ok THEN "ok" ELSE "bad_json"

HttpInit ==
    /\ impl \in {"post_json", "_post_json"}
    /\ hpc = "loop"
    /\ network_attempts = 0
    /\ rate_limit_attempts = 0
    /\ attempt = 1
    /\ posts = 0
    /\ sleeps = <<>>
    /\ outcomes = <<>>
    /\ counters = <<>>
    /\ last = NoOutcome
    /\ error = NoError

\* Mutation of NetworkBackoff: a flat delay instead of a linear one.
NetworkBackoffFlat(na) == RETRY_BACKOFF_SECONDS

\* Mutation of RateLimitBudgetRemains: one retry fewer than configured.
RateLimitBudgetShort(rla) == rla < MAX_RATE_LIMIT_RETRIES - 1

\* Mutation of LoopCondition: one budget shared by both kinds of retry.
LoopConditionShared(na, rla) == na + rla < MAX_HTTP_RETRIES

\* Mutation of NetworkBudgetRemains: the last failure is retried too.
NetworkBudgetLoose(na) == na <= MAX_HTTP_RETRIES

\* if network_attempts < MAX_HTTP_RETRIES (base.py:179, 193)
NetworkBudgetRemains(na) == na < MAX_HTTP_RETRIES

\* sleep_for = RETRY_BACKOFF_SECONDS * network_attempts (base.py:180, 194)
NetworkBackoff(na) == RETRY_BACKOFF_SECONDS * na

\* if rate_limit_attempts < MAX_RATE_LIMIT_RETRIES (base.py:141)
RateLimitBudgetRemains(rla) == rla < MAX_RATE_LIMIT_RETRIES

\* sleep_for = RATE_LIMIT_BACKOFF_SECONDS[rate_limit_attempts] (base.py:142);
\* the list is indexed from 0, the sequence from 1.
RateLimitBackoff(rla) == RATE_LIMIT_BACKOFF_SECONDS[rla + 1]

\* The while condition of post_json (base.py:123).
LoopCondition(na, rla) ==
    na < MAX_HTTP_RETRIES /\ rla <= MAX_RATE_LIMIT_RETRIES

\* requests.post is called: one more POST, whose outcome is `raw` of class `cls`.
Posted(raw, cls) ==
    /\ posts' = posts + 1
    /\ outcomes' = Append(outcomes, cls)
    /\ counters' = Append(counters, <<network_attempts, rate_limit_attempts>>)
    /\ last' = raw
    /\ UNCHANGED <<pvars, wvars>>

\* raise LLMError(code=..., details=...) out of post_json.
Raise(code, details_len) ==
    /\ hpc' = "raised"
    /\ error' = [code |-> code, details_len |-> details_len]

\* `continue`: the while condition is tested again with the new counters; when
\* it fails, control reaches the raise after the loop (base.py:211-216).
Continue(na, rla) ==
    IF LoopCondition(na, rla)
    THEN /\ hpc' = "loop"
         /\ error' = error
    ELSE Raise("NETWORK_ERROR_AFTER_LOOP", 0)

\* except requests.Timeout / requests.ConnectionError (base.py:176-202): the
\* two handlers differ only in the code they raise with.
NetworkFailure(kind, code) ==
    /\ impl = "post_json"
    /\ hpc = "loop"
    /\ Posted([kind |-> kind], kind)
    /\ network_attempts' = network_attempts + 1
    /\ IF NetworkBudgetRemains(network_attempts')
       THEN /\ sleeps' = Append(sleeps, NetworkBackoff(network_attempts'))
            /\ Continue(network_attempts', rate_limit_attempts)
       ELSE /\ sleeps' = sleeps
            /\ Raise(code, 0)
    /\ UNCHANGED <<impl, rate_limit_attempts, attempt>>

PostTimeout == NetworkFailure("timeout", "TIMEOUT")

PostConnectionError == NetworkFailure("connection_error", "NETWORK_ERROR")

\* except requests.RequestException (base.py:204-209)
PostRequestException ==
    /\ impl = "post_json"
    /\ hpc = "loop"
    /\ Posted([kind |-> "request_exception"], "request_exception")
    /\ Raise("NETWORK_ERROR", 0)
    /\ UNCHANGED <<impl, network_attempts, rate_limit_attempts, attempt, sleeps>>

\* The rate-limit branch (base.py:140-159).
RateLimited(snippet) ==
    IF RateLimitBudgetRemains(rate_limit_attempts)
    THEN /\ sleeps' = Append(sleeps, RateLimitBackoff(rate_limit_attempts))
         /\ rate_limit_attempts' = rate_limit_attempts + 1
         /\ Continue(network_attempts, rate_limit_attempts')
    ELSE /\ Raise("RATE_LIMIT", snippet.len)
         /\ UNCHANGED <<sleeps, rate_limit_attempts>>

\* requests.post returned a response (base.py:125-174).
PostResponse(resp) ==
    /\ impl = "post_json"
    /\ hpc = "loop"
    /\ Posted([kind |-> "response", resp |-> resp], Classify(resp))
    /\ LET snippet == Snippet(resp.body)
           branch == Classify(resp)
       IN  CASE branch = "billing" ->
                   /\ Raise("AUTH_ERROR", snippet.len)
                   /\ UNCHANGED <<sleeps, rate_limit_attempts>>
             [] branch = "rate_limited" ->
                   RateLimited(snippet)
             [] branch = "http_error" ->
                   /\ Raise("LLM_ERROR", snippet.len)
                   /\ UNCHANGED <<sleeps, rate_limit_attempts>>
             [] branch = "ok" ->
                   /\ hpc' = "returned"
                   /\ error' = error
                   /\ UNCHANGED <<sleeps, rate_limit_attempts>>
             [] branch = "bad_json" ->
                   /\ Raise("INVALID_RESPONSE", 0)
                   /\ UNCHANGED <<sleeps, rate_limit_attempts>>
    /\ UNCHANGED <<impl, network_attempts, attempt>>

\* ---- _post_json (src/src/llm_adapters.py) ----

\* raise AdapterHTTPError(...)
LegacyRaise(details_len) ==
    /\ hpc' = "raised"
    /\ error' = [code |-> "AdapterHTTPError", details_len |-> details_len]

\* except (requests.Timeout, requests.ConnectionError) (llm_adapters.py:43-51)
LegacyNetworkFailure(kind) ==
    /\ impl = "_post_json"
    /\ hpc = "loop"
    /\ attempt <= MAX_HTTP_RETRIES
    /\ Posted([kind |-> kind], kind)
    /\ IF attempt < MAX_HTTP_RETRIES
       THEN /\ sleeps' = Append(sleeps, RETRY_BACKOFF_SECONDS * attempt)
            /\ attempt' = attempt + 1
            /\ hpc' = "loop"
            /\ error' = error
       ELSE /\ LegacyRaise(0)
            /\ UNCHANGED <<sleeps, attempt>>
    /\ UNCHANGED <<impl, network_attempts, rate_limit_attempts>>

LegacyPostNetworkError ==
    \E kind \in {"timeout", "connection_error"} : LegacyNetworkFailure(kind)

\* except requests.RequestException (llm_adapters.py:52-53)
LegacyPostRequestException ==
    /\ impl = "_post_json"
    /\ hpc = "loop"
    /\ attempt <= MAX_HTTP_RETRIES
    /\ Posted([kind |-> "request_exception"], "request_exception")
    /\ LegacyRaise(0)
    /\ UNCHANGED <<impl, network_attempts, rate_limit_attempts, attempt, sleeps>>

\* requests.post returned a response (llm_adapters.py:35-42)
LegacyPostResponse(resp) ==
    /\ impl = "_post_json"
    /\ hpc = "loop"
    /\ attempt <= MAX_HTTP_RETRIES
    /\ Posted([kind |-> "response", resp |-> resp], Classify(resp))
    /\ IF resp.status >= 400
       THEN LegacyRaise(Snippet(resp.body).len)
       ELSE IF resp.json_ok
            THEN /\ hpc' = "returned"
                 /\ error' = error
            ELSE LegacyRaise(0)
    /\ UNCHANGED <<impl, network_attempts, rate_limit_attempts, attempt, sleeps>>

Next ==
    \/ PostTimeout
    \/ PostConnectionError
    \/ PostRequestException
    \/ \E resp \in Responses : PostResponse(resp)
    \/ LegacyPostNetworkError
    \/ LegacyPostRequestException
    \/ \E resp \in Responses : LegacyPostResponse(resp)


(***************************************************************************)
(* Probe orchestrator: data and pure functions                             *)
(***************************************************************************)

MaxScenarios == 2
MaxFollowups == 2
MaxWorkers == 2
MaxProviderErrors == 1

DigestModulus == 65536
DigestMultiplier == 31

\* int(hashlib.sha256(text).hexdigest()[:16], 16): a digest of the text, here
\* of the sequence of numbers that stands for it, truncated to a fixed width.
Digest(text) ==
    LET h[i \in 0..Len(text)] ==
            IF i = 0 THEN 7
            ELSE (h[i - 1] * DigestMultiplier + text[i] + 1) % DigestModulus
    IN  h[Len(text)]

\* A text is <<kind, a, b>>: what it is and the two numbers that identify it.
NoText == <<"none", 0, 0>>
SystemPrompt == <<"system_prompt", 0, 0>>
ProviderText == <<"provider_text", 0, 0>>

KindCode(kind) ==
    CASE kind = "none" -> 0
      [] kind = "system_prompt" -> 1
      [] kind = "scenario_prompt" -> 2
      [] kind = "followup" -> 3
      [] kind = "provider_text" -> 4
      [] kind = "mock_text" -> 5
      [] kind = "dry_run" -> 6

RoleCode(role) ==
    CASE role = "system" -> 1
      [] role = "user" -> 2
      [] role = "assistant" -> 3

TextCode(text) == Digest(<<KindCode(text[1]), text[2], text[3]>>)

ModelNames == {"gpt-4o", "llama-3"}

ModelCode(model) ==
    CASE model = "gpt-4o" -> 1
      [] model = "llama-3" -> 2

\* The provider markers that occur in model.lower().
Markers(model) ==
    CASE model = "gpt-4o" -> {"gpt"}
      [] model = "llama-3" -> {}
      [] model = "GPT-4" -> {"gpt"}
      [] model = "text-davinci-003" -> {"text-"}
      [] model = "claude-3-opus" -> {"claude"}
      [] model = "grok-2" -> {"grok"}
      [] model = "gemini-pro" -> {"gemini"}
      [] model = "" -> {}

infer_provider_from_model(model) ==
    LET lowered == Markers(model) IN
    IF "gpt" \in lowered \/ "text-" \in lowered THEN "openai"
    ELSE IF "claude" \in lowered THEN "anthropic"
    ELSE IF "grok" \in lowered THEN "xai"
    ELSE IF "gemini" \in lowered THEN "google"
    ELSE "mock"

\* AdapterRegistry.resolve_for_model: the provider whose adapter is returned.
resolve_for_model(model) ==
    LET provider == infer_provider_from_model(model) IN
    IF provider \in cfg.adapters THEN provider
    ELSE IF cfg.env_provider # "" /\ cfg.env_provider \in cfg.adapters
         THEN cfg.env_provider
         ELSE "mock"

\* Mutation of AnonId: the index left out of the identifier.
AnonIdUnnumbered(index) == <<"anon_model_", 0, 0, 1>>

\* f"anon_model_{index:03d}"
AnonId(index) ==
    <<"anon_model_", index \div 100, (index \div 10) % 10, index % 10>>

\* seed_basis = f"{run_id}|{scenario.scenario_id}|{anon_id}|{turn_number}" and
\* its digest (probe.py:234-235).
run_seed_of(rid, scenario_id, anon_id, turn_number) ==
    Digest(<<rid, scenario_id, anon_id[2], anon_id[3], anon_id[4], turn_number>>)

\* MockLLMAdapter.fallback_values
NumFallbackValues == 8

\* The numbers a conversation's text is made of:
\* "\n".join(f"{m.get('role')}: {m.get('content')}" for m in messages)
ConversationText(messages) ==
    LET flat[i \in 0..Len(messages)] ==
            IF i = 0 THEN <<>>
            ELSE flat[i - 1] \o <<RoleCode(messages[i].role),
                                  TextCode(messages[i].content)>>
    IN  flat[Len(messages)]

\* Mutation of MockGenerate: max_tokens made part of seed_source.
MockGenerateByLength(model, messages, temperature, max_tokens, run_seed) ==
    LET seed == Digest(<<ModelCode(model)>> \o ConversationText(messages)
                       \o <<temperature, run_seed, max_tokens>>)
        prioritized == (seed % NumFallbackValues) + 1
        k == ((seed \div NumFallbackValues) % (NumFallbackValues - 1)) + 1
        sacrificed == IF k < prioritized THEN k ELSE k + 1
    IN  <<"mock_text", prioritized, sacrificed>>

\* MockLLMAdapter.generate: a seeded choice of the prioritized value and, among
\* the remaining ones, of the sacrificed value.
MockGenerate(model, messages, temperature, max_tokens, run_seed) ==
    LET seed == Digest(<<ModelCode(model)>> \o ConversationText(messages)
                       \o <<temperature, run_seed>>)
        prioritized == (seed % NumFallbackValues) + 1
        k == ((seed \div NumFallbackValues) % (NumFallbackValues - 1)) + 1
        sacrificed == IF k < prioritized THEN k ELSE k + 1
    IN  <<"mock_text", prioritized, sacrificed>>

\* next((m for m in reversed(messages) if m.get("role") == "user"), {"content": ""})
LastUserContent(messages) ==
    LET users == {i \in 1..Len(messages) : messages[i].role = "user"} IN
    IF users = {} THEN NoText
    ELSE messages[CHOOSE i \in users : \A j \in users : j <= i].content

\* f"[DRY-RUN RESPONSE for {model}] {last_user.get('content','')[:120]}..."
DryRunResponse(model, messages) ==
    <<"dry_run", ModelCode(model), TextCode(LastUserContent(messages))>>

\* What the resolved adapter's generate call can do.
GenerateOutcomes == {"ok", "AdapterHTTPError", "AttributeError"}

Call(callee, model, messages, temperature, max_tokens, run_seed, outcome) ==
    [callee |-> callee, model |-> model, messages |-> messages,
     temperature |-> temperature, max_tokens |-> max_tokens,
     run_seed |-> run_seed, outcome |-> outcome]

\* Mutation of FallbackSeed: the fallback mock is called without the seed.
FallbackSeedDropped(run_seed) == 0

\* run_seed=run_seed in the fallback call (probe.py:92)
FallbackSeed(run_seed) == run_seed

\* Mutation of CaughtByProbe: the except clause matches nothing.
CaughtByProbeNone(outcome) == FALSE

\* except AdapterHTTPError (probe.py:83)
CaughtByProbe(outcome) == outcome = "AdapterHTTPError"

\* invoke_target_model, when adapter.generate behaves as `outcome` says:
\* the response returned or the exception raised, and the generate calls made.
invoke_target_model(model, messages, temperature, max_tokens, run_seed, dry_run, outcome) ==
    LET adapter == resolve_for_model(model) IN
    IF dry_run
    THEN [exc |-> "none", response |-> DryRunResponse(model, messages), calls |-> <<>>]
    ELSE IF adapter = "mock"
    THEN [exc |-> "none",
          response |-> MockGenerate(model, messages, temperature, max_tokens, run_seed),
          calls |-> <<Call("adapter", model, messages, temperature, max_tokens,
                           run_seed, "ok")>>]
    ELSE LET first == Call("adapter", model, messages, temperature, max_tokens,
                           run_seed, outcome)
         IN  IF outcome = "ok"
             THEN [exc |-> "none", response |-> ProviderText, calls |-> <<first>>]
             ELSE IF CaughtByProbe(outcome)
             THEN [exc |-> "none",
                   response |-> MockGenerate(model, messages, temperature,
                                             max_tokens, FallbackSeed(run_seed)),
                   calls |-> <<first,
                               Call("mock_fallback", model, messages, temperature,
                                    max_tokens, FallbackSeed(run_seed), "ok")>>]
             ELSE [exc |-> outcome, response |-> NoText, calls |-> <<first>>]


(***************************************************************************)
(* Probe orchestrator: run_probe                                           *)
(***************************************************************************)

TargetModelLists ==
    {<<"gpt-4o">>, <<"llama-3">>, <<"llama-3", "gpt-4o">>}

\* What surrounds the run: the adapters the registry holds (the mock always,
\* llm_adapters.py:310), --dry-run, and how the provider behaves: "up" (every
\* call answers), "down" (every call raises AdapterHTTPError) or "flaky" (up to
\* MaxProviderErrors calls fail, each in any way).
Environments ==
    {[adapters |-> {"mock"}, dry_run |-> FALSE, provider |-> "up"],
     [adapters |-> {"mock", "openai"}, dry_run |-> TRUE, provider |-> "up"],
     [adapters |-> {"mock", "openai"}, dry_run |-> FALSE, provider |-> "up"],
     [adapters |-> {"mock", "openai"}, dry_run |-> FALSE, provider |-> "down"],
     [adapters |-> {"mock", "openai"}, dry_run |-> FALSE, provider |-> "flaky"]}

\* generate_run_id(...): a timestamp label, here its number.
RunIds == {1}

\* runtime_cfg.defaults.get("temperature", 0), in tenths
Temperatures == {7}

\* runtime_cfg.defaults.get("max_tokens", 1000)
DefaultMaxTokens == 1000

\* The key "scenario_<id>" of the p-th scenario after the sort by id
\* (config_loader.py:120): ids are distinct and ascending.
ScenarioIdAt(p) == 2 * p + 1

Scenario(p) ==
    [scenario_id |-> ScenarioIdAt(p),
     subject |-> <<"subject", ScenarioIdAt(p)>>,
     body |-> <<"body", ScenarioIdAt(p)>>]

IdleTask ==
    [status |-> "none", turn_number |-> 1, conversation |-> <<>>, turns |-> <<>>,
     calls |-> <<>>, exc |-> "none"]

NumScenarios == Len(cfg.scenarios)
NumModels == Len(cfg.target_models)
AllTasks == 1..NumScenarios

\* scenario_order (probe.py:291)
scenario_order == [p \in 1..NumScenarios |-> cfg.scenarios[p].scenario_id]

ProbeInit ==
    /\ \E tm \in TargetModelLists, n \in 1..MaxScenarios, f \in 0..MaxFollowups,
          w \in 1..MaxWorkers, env \in Environments, temp \in Temperatures :
          cfg = [target_models |-> tm,
                 scenarios |-> [p \in 1..n |-> Scenario(p)],
                 followup_items |-> [j \in 1..f |->
                                        [label |-> j, prompt |-> <<"followup", j, 0>>]],
                 thread_workers |-> w,
                 temperature |-> temp,
                 max_tokens |-> DefaultMaxTokens,
                 dry_run |-> env.dry_run,
                 adapters |-> env.adapters,
                 env_provider |-> "",
                 provider |-> env.provider]
    /\ run_id \in RunIds
    /\ ppc = "next_model"
    /\ midx = 0
    /\ model_mapping = <<>>
    /\ queued = 0
    /\ task = <<>>
    /\ scenario_results_map = <<>>
    /\ aggregated = <<>>
    /\ files = {}
    /\ adapter_log = <<>>
    /\ provider_errors = 0
    /\ pending_exc = "none"

File(kind, scenario_id, model, anon_id) ==
    [kind |-> kind, scenario_id |-> scenario_id, model |-> model, anon_id |-> anon_id]

NoAnon == <<"", 0, 0, 0>>

\* The head of the loop over target models (probe.py:286-292).
BeginModel ==
    /\ ppc = "next_model"
    /\ midx < NumModels
    /\ midx' = midx + 1
    /\ model_mapping' = Append(model_mapping,
                               [anon_id |-> AnonId(midx'),
                                true_model |-> cfg.target_models[midx']])
    /\ queued' = 0
    /\ task' = [p \in AllTasks |-> IdleTask]
    /\ scenario_results_map' = <<>>
    /\ adapter_log' = Append(adapter_log, {})
    /\ ppc' = "submit"
    /\ UNCHANGED <<cfg, run_id, aggregated, files, provider_errors, pending_exc>>
    /\ UNCHANGED <<hvars, wvars>>

\* executor.submit(process_scenario, target_model, anon_id, scenario)
\* (probe.py:295-298), in declaration order.
SubmitScenario ==
    /\ ppc = "submit"
    /\ queued < NumScenarios
    /\ queued' = queued + 1
    /\ task' = [task EXCEPT ![queued'].status = "queued"]
    /\ ppc' = IF queued' = NumScenarios THEN "harvest" ELSE "submit"
    /\ UNCHANGED <<cfg, run_id, midx, model_mapping, scenario_results_map,
                   aggregated, files, adapter_log, provider_errors, pending_exc>>
    /\ UNCHANGED <<hvars, wvars>>

Running == {p \in DOMAIN task : task[p].status = "running"}
Waiting == {p \in DOMAIN task : task[p].status = "queued"}
Completed == {p \in DOMAIN task : task[p].status \in {"done", "raised"}}

\* prompt_sequence (probe.py:224-227)
prompt_sequence(scenario) ==
    <<[label |-> 0, prompt |-> <<"scenario_prompt", scenario.scenario_id, 0>>]>>
        \o cfg.followup_items

\* The outcomes the provider may give the next generate call.
Allowed(model) ==
    IF cfg.dry_run \/ resolve_for_model(model) = "mock" THEN {"ok"}
    ELSE IF cfg.provider = "up" THEN {"ok"}
    ELSE IF cfg.provider = "down" THEN {"AdapterHTTPError"}
    ELSE IF provider_errors < MaxProviderErrors THEN GenerateOutcomes
    ELSE {"ok"}

\* Mutation of TurnNumberOf: enumerate started at 0.
TurnNumberFromZero(k) == k - 1

\* turn_number of enumerate(prompt_sequence, start=1) (probe.py:233): the
\* number given to the k-th prompt of the sequence.
TurnNumberOf(k) == k

\* Mutation of TurnResult: `conversation = messages`, the response not appended.
TurnResultForgetful(p, t, outcome) ==
    LET scenario == cfg.scenarios[p]
        target_model == cfg.target_models[midx]
        anon_id == model_mapping[midx].anon_id
        prompts == prompt_sequence(scenario)
        turn_number == TurnNumberOf(t.turn_number)
        item == prompts[t.turn_number]
        run_seed == run_seed_of(run_id, scenario.scenario_id, anon_id, turn_number)
        messages == Append(t.conversation, [role |-> "user", content |-> item.prompt])
        r == invoke_target_model(target_model, messages, cfg.temperature,
                                 cfg.max_tokens, run_seed, cfg.dry_run, outcome)
    IN  IF r.exc = "none"
        THEN [status |-> IF t.turn_number = Len(prompts) THEN "done" ELSE "running",
              turn_number |-> t.turn_number + 1,
              conversation |-> messages,
              turns |-> Append(t.turns,
                               [turn_number |-> turn_number,
                                prompt_label |-> item.label,
                                probe_prompt |-> item.prompt,
                                target_response |-> r.response]),
              calls |-> t.calls \o r.calls,
              exc |-> "none"]
        ELSE [t EXCEPT !.status = "raised", !.exc = r.exc,
                       !.calls = t.calls \o r.calls]

\* One iteration of the loop over prompt_sequence (probe.py:233-253) on task
\* state t of scenario position p, the adapter behaving as `outcome` says: the
\* task's next state. After the last prompt the task returns; an exception
\* that invoke_target_model lets through ends it.
TurnResult(p, t, outcome) ==
    LET scenario == cfg.scenarios[p]
        target_model == cfg.target_models[midx]
        anon_id == model_mapping[midx].anon_id
        prompts == prompt_sequence(scenario)
        turn_number == TurnNumberOf(t.turn_number)
        item == prompts[t.turn_number]
        run_seed == run_seed_of(run_id, scenario.scenario_id, anon_id, turn_number)
        messages == Append(t.conversation, [role |-> "user", content |-> item.prompt])
        r == invoke_target_model(target_model, messages, cfg.temperature,
                                 cfg.max_tokens, run_seed, cfg.dry_run, outcome)
    IN  IF r.exc = "none"
        THEN [status |-> IF t.turn_number = Len(prompts) THEN "done" ELSE "running",
              turn_number |-> t.turn_number + 1,
              conversation |-> Append(messages, [role |-> "assistant",
                                                 content |-> r.response]),
              turns |-> Append(t.turns,
                               [turn_number |-> turn_number,
                                prompt_label |-> item.label,
                                probe_prompt |-> item.prompt,
                                target_response |-> r.response]),
              calls |-> t.calls \o r.calls,
              exc |-> "none"]
        ELSE [t EXCEPT !.status = "raised", !.exc = r.exc,
                       !.calls = t.calls \o r.calls]

\* A worker thread runs task p from state t up to its next HTTP call or its
\* end; a task that returns has saved its transcript under the true model's
\* name (probe.py:262-275).
RunTask(p, t) ==
    \E outcome \in Allowed(cfg.target_models[midx]) :
        LET after == TurnResult(p, t, outcome)
            made == SubSeq(after.calls, Len(t.calls) + 1, Len(after.calls))
        IN  /\ task' = [task EXCEPT ![p] = after]
            /\ adapter_log' =
                  [adapter_log EXCEPT ![midx] =
                      @ \cup {made[i].outcome : i \in
                                {j \in 1..Len(made) : made[j].callee = "adapter"}}]
            /\ provider_errors' =
                  IF outcome = "ok" THEN provider_errors
                  ELSE Min(provider_errors + 1, MaxProviderErrors)
            /\ files' =
                  IF after.status = "done"
                  THEN files \cup {File("transcript", cfg.scenarios[p].scenario_id,
                                        cfg.target_models[midx], NoAnon)}
                  ELSE files

\* A free worker thread takes the oldest queued work item: process_scenario
\* starts (probe.py:223-231) and runs its first turn.
StartScenario(p) ==
    /\ ppc \in {"submit", "harvest", "unwinding"}
    /\ p \in Waiting
    /\ \A q \in Waiting : p <= q
    /\ Cardinality(Running) < cfg.thread_workers
    /\ RunTask(p, [status |-> "running", turn_number |-> 1,
                   conversation |-> <<[role |-> "system", content |-> SystemPrompt]>>,
                   turns |-> <<>>, calls |-> <<>>, exc |-> "none"])
    /\ UNCHANGED <<cfg, run_id, ppc, midx, model_mapping, queued,
                   scenario_results_map, aggregated, pending_exc>>
    /\ UNCHANGED <<hvars, wvars>>

\* A running task goes through its next turn.
ContinueScenario(p) ==
    /\ p \in Running
    /\ RunTask(p, task[p])
    /\ UNCHANGED <<cfg, run_id, ppc, midx, model_mapping, queued,
                   scenario_results_map, aggregated, pending_exc>>
    /\ UNCHANGED <<hvars, wvars>>

\* ScenarioResult(...) of a finished task (probe.py:255-260)
ScenarioResult(p) ==
    [scenario_id |-> cfg.scenarios[p].scenario_id,
     subject |-> cfg.scenarios[p].subject,
     body |-> cfg.scenarios[p].body,
     turns |-> task[p].turns]

\* A dict is the sequence of its [key, value] items in insertion order.
Keys(map) == {map[i].key : i \in 1..Len(map)}

Lookup(map, key) == map[CHOOSE i \in 1..Len(map) : map[i].key = key].value

\* map[key] = value
Store(map, key, value) ==
    IF key \in Keys(map)
    THEN [i \in 1..Len(map) |->
             IF map[i].key = key THEN [key |-> key, value |-> value] ELSE map[i]]
    ELSE Append(map, [key |-> key, value |-> value])

\* Mutation of Harvested: a future counts as consumed before it is done.
HarvestedEarly ==
    {p \in AllTasks :
        \/ cfg.scenarios[p].scenario_id \in Keys(scenario_results_map)
        \/ task[p].status \in {"queued", "running"}}

Harvested == {p \in AllTasks : cfg.scenarios[p].scenario_id \in Keys(scenario_results_map)}

\* One step of `for future in as_completed(futures_map)` (probe.py:300-303):
\* future.result() returns the task's tuple or raises the task's exception,
\* which leaves the loop and the with block.
Harvest(p) ==
    /\ ppc = "harvest"
    /\ p \in Completed \ Harvested
    /\ IF task[p].status = "done"
       THEN /\ scenario_results_map' =
                  Store(scenario_results_map, cfg.scenarios[p].scenario_id,
                        ScenarioResult(p))
            /\ ppc' = IF Harvested \cup {p} = AllTasks THEN "aggregate" ELSE "harvest"
            /\ UNCHANGED pending_exc
       ELSE /\ pending_exc' = task[p].exc
            /\ ppc' = "unwinding"
            /\ UNCHANGED scenario_results_map
    /\ UNCHANGED <<cfg, run_id, midx, model_mapping, queued, task, aggregated,
                   files, adapter_log, provider_errors>>
    /\ UNCHANGED <<hvars, wvars>>

\* ThreadPoolExecutor.__exit__ with an exception in flight: shutdown(wait=True)
\* returns once every submitted task has run; the exception then leaves
\* run_probe (probe.py:294).
ExecutorShutdown ==
    /\ ppc = "unwinding"
    /\ Completed = AllTasks
    /\ ppc' = "raised"
    /\ UNCHANGED <<cfg, run_id, midx, model_mapping, queued, task,
                   scenario_results_map, aggregated, files, adapter_log,
                   provider_errors, pending_exc>>
    /\ UNCHANGED <<hvars, wvars>>

\* Mutation of Reorder: list(scenario_results_map.values()), the results in
\* the order they were stored.
ReorderByHarvest(map, order) == [i \in 1..Len(map) |-> map[i].value]

\* [scenario_results_map[scenario_id] for scenario_id in scenario_order]
\* (probe.py:305)
Reorder(map, order) == [i \in 1..Len(order) |-> Lookup(map, order[i])]

\* After the with block: the results are put in declaration order and the
\* aggregated transcript is written (probe.py:305-316).
Aggregate ==
    /\ ppc = "aggregate"
    /\ aggregated' = Append(aggregated, Reorder(scenario_results_map, scenario_order))
    /\ files' = files \cup {File("aggregated_transcript", 0, "",
                                 model_mapping[midx].anon_id)}
    /\ ppc' = IF midx < NumModels THEN "next_model" ELSE "manifest"
    /\ UNCHANGED <<cfg, run_id, midx, model_mapping, queued, task,
                   scenario_results_map, adapter_log, provider_errors, pending_exc>>
    /\ UNCHANGED <<hvars, wvars>>

\* create_run_manifest and save_yaml (probe.py:317-330)
WriteManifest ==
    /\ ppc = "manifest"
    /\ files' = files \cup {File("run_manifest", 0, "", NoAnon)}
    /\ ppc' = "done"
    /\ UNCHANGED <<cfg, run_id, midx, model_mapping, queued, task,
                   scenario_results_map, aggregated, adapter_log,
                   provider_errors, pending_exc>>
    /\ UNCHANGED <<hvars, wvars>>

ProbeNext ==
    \/ BeginModel
    \/ SubmitScenario
    \/ \E p \in DOMAIN task : StartScenario(p)
    \/ \E p \in DOMAIN task : ContinueScenario(p)
    \/ \E p \in DOMAIN task : Harvest(p)
    \/ ExecutorShutdown
    \/ Aggregate
    \/ WriteManifest

\* The decision extractor is not called.
ExtractIdle ==
    /\ input_text = <<>>
    /\ extracted = [code |-> "none", line |-> 0]
    /\ xpc = "idle"

\* run_summarize is not called.
SummarizeIdle ==
    /\ transcript_content = <<>>
    /\ decision_code = "none"
    /\ decision_source = "none"
    /\ llm_calls = <<>>
    /\ llm_decision_code = "none"
    /\ summary = [success |-> FALSE]
    /\ spc = "idle"

\* No AdapterRegistry is looked at.
RegistryIdle ==
    /\ adapters = <<>>
    /\ default_provider = ""
    /\ register_calls = 0
    /\ resolved = "none"
    /\ rpc = "idle"

\* No MockLLMAdapter is called directly.
MockIdle == mock_log = <<>>

HttpIdle ==
    /\ impl = "post_json"
    /\ hpc = "idle"
    /\ network_attempts = 0
    /\ rate_limit_attempts = 0
    /\ attempt = 1
    /\ posts = 0
    /\ sleeps = <<>>
    /\ outcomes = <<>>
    /\ counters = <<>>
    /\ last = NoOutcome
    /\ error = NoError

InitProbe ==
    ProbeInit /\ HttpIdle /\ ExtractIdle /\ SummarizeIdle /\ RegistryIdle /\ MockIdle

SpecProbe == InitProbe /\ [][ProbeNext]_vars

(***************************************************************************)
(* Specifications                                                          *)
(***************************************************************************)

ProbeIdle ==
    /\ cfg = [dry_run |-> FALSE]
    /\ run_id = 0
    /\ ppc = "idle"
    /\ midx = 0
    /\ model_mapping = <<>>
    /\ queued = 0
    /\ task = <<>>
    /\ scenario_results_map = <<>>
    /\ aggregated = <<>>
    /\ files = {}
    /\ adapter_log = <<>>
    /\ provider_errors = 0
    /\ pending_exc = "none"

Init ==
    HttpInit /\ ProbeIdle /\ ExtractIdle /\ SummarizeIdle /\ RegistryIdle /\ MockIdle

Spec == Init /\ [][Next]_vars

\* The same call when every POST that is issued completes and every sleep
\* ends (requests.post is given a timeout, time.sleep a finite duration).
SpecTerminating == Init /\ [][Next]_vars /\ WF_vars(Next)

(***************************************************************************)
(* Decision extractor: extract_decision_code_from_text (summarize.py)      *)
(*                                                                         *)
(* A text is the sequence of its tokens, which single spaces separate: the *)
(* phrases the regular expressions look for, numerals, a word that no      *)
(* expression looks for, and the markdown marker "**".  Each expression is *)
(* the test of what it matches on such a sequence.                         *)
(***************************************************************************)

MaxFragments == 3

Phrases ==
    {"must decline", "I'm sorry, but", "Rating:", "answer is", "I choose",
     "and", "to", "would you", "personally", "word", "**"}

Numerals == {"3", "4", "04"}

Tokens == Phrases \cup Numerals

\* The pieces a text is put together from: every token by itself, and the
\* idioms of a response ("Rating: 3", "I choose 4", "and 4", "3 to 4").
Fragments ==
    {<<tok>> : tok \in Tokens}
      \cup {<<lead, n>> : lead \in {"Rating:", "answer is", "I choose", "and"},
                          n \in {"3", "4"}}
      \cup {<<"3", "to", "4">>}

RECURSIVE TextsOf(_)
TextsOf(k) ==
    IF k = 0 THEN {<<>>}
    ELSE LET shorter == TextsOf(k - 1)
         IN  shorter \cup {t \o f : t \in shorter, f \in Fragments}

\* The texts of at most MaxFragments fragments.
Texts == TextsOf(MaxFragments)

\* The decimal digits of a numeral; <<>> for any other token.
Digits(tok) ==
    CASE tok = "3" -> <<3>>
      [] tok = "4" -> <<4>>
      [] tok = "04" -> <<0, 4>>
      [] tok = "0" -> <<0>>
      [] OTHER -> <<>>

\* \b([1-9]\d*)\b on a token: a numeral that does not start with 0.
PositiveInteger(tok) == Digits(tok) # <<>> /\ Digits(tok)[1] # 0

\* [1-9] finds a place to start in the token.
HasNonZeroDigit(tok) == \E i \in 1..Len(Digits(tok)) : Digits(tok)[i] # 0

\* What is left of a numeral in front of the first place [1-9] matches: its
\* leading zeros (the numerals here have at most one).
LeadingZeros(tok) ==
    IF Digits(tok) # <<>> /\ Digits(tok)[1] = 0 THEN <<"0">> ELSE <<>>

None == "none"

\* The value returned and the line of the return statement that returned it.
Return(code, line) == [code |-> code, line |-> line]

\* REFUSAL_PATTERN.search(text)
REFUSAL_PATTERN(t) ==
    \E i \in 1..Len(t) : t[i] \in {"must decline", "I'm sorry, but"}

\* text.replace("**", "").replace("__", "").replace("`", "")
StripMarkdown(t) == SelectSeq(t, LAMBDA tok : tok # "**")

\* The places where STRUCTURED_RATING_PATTERN matches: "Rating:", optional
\* whitespace, [1-9]\d*.
RatingMatches(s) ==
    {i \in 1..(Len(s) - 1) : s[i] = "Rating:" /\ PositiveInteger(s[i + 1])}

\* Mutation of structured_match: the last match instead of the first.
structured_match_last(s) ==
    CHOOSE i \in RatingMatches(s) : \A j \in RatingMatches(s) : j <= i

\* STRUCTURED_RATING_PATTERN.search(sanitized_markdown_text): the leftmost match
structured_match(s) ==
    CHOOSE i \in RatingMatches(s) : \A j \in RatingMatches(s) : i <= j

\* The patterns of STRUCTURED_DECISION_PATTERNS that the tokens can match, in
\* list order, each by the phrase it requires in front of the number:
\* (decision|answer|response) (is|=|:)? N   and   i (choose|pick|...) N.
STRUCTURED_DECISION_PATTERNS == <<"answer is", "I choose">>

\* pattern.finditer(sanitized_markdown_text): the places of its matches
PatternMatches(pattern, s) ==
    {i \in 1..(Len(s) - 1) : s[i] = pattern /\ PositiveInteger(s[i + 1])}

\* match.group(1) of each match, in text order
MatchValues(pattern, s) ==
    LET m[i \in 0..Len(s)] ==
            IF i = 0 THEN <<>>
            ELSE IF i \in PatternMatches(pattern, s)
                 THEN Append(m[i - 1], s[i + 1])
                 ELSE m[i - 1]
    IN  m[Len(s)]

\* Mutation of AMBIGUOUS_SUFFIX_PATTERN: no suffix is ambiguous.
AmbiguousSuffixNever(s, i) == FALSE

\* AMBIGUOUS_SUFFIX_PATTERN.search(suffix) for the match at place i, whose
\* number is token i + 1: ^\s*(and|or|/|,)\s*([1-9]\d*)\b on the 24
\* characters that follow (two tokens and their spaces fit).
AMBIGUOUS_SUFFIX_PATTERN(s, i) ==
    /\ i + 3 <= Len(s)
    /\ s[i + 2] = "and"
    /\ PositiveInteger(s[i + 3])

\* list(dict.fromkeys(values)): the distinct values in order of first occurrence
Distinct(values) ==
    LET d[i \in 0..Len(values)] ==
            IF i = 0 THEN <<>>
            ELSE IF \E j \in 1..Len(d[i - 1]) : d[i - 1][j] = values[i]
                 THEN d[i - 1]
                 ELSE Append(d[i - 1], values[i])
    IN  d[Len(values)]

\* RANGE_PATTERN.sub(" ", sanitized_markdown_text): the matches
\* ([1-9]\d*)\s*(-|to)\s*([1-9]\d*) are replaced from left to right, without
\* overlap.
RECURSIVE RemoveRanges(_)
RemoveRanges(s) ==
    IF s = <<>> THEN <<>>
    ELSE IF Len(s) >= 3 /\ HasNonZeroDigit(s[1]) /\ s[2] = "to"
               /\ PositiveInteger(s[3])
         THEN LeadingZeros(s[1]) \o RemoveRanges(SubSeq(s, 4, Len(s)))
         ELSE <<s[1]>> \o RemoveRanges(Tail(s))

\* [m.group(1) for m in FALLBACK_RATING_PATTERN.finditer(sanitized_text)]
FallbackMatches(s) == SelectSeq(RemoveRanges(s), PositiveInteger)

\* USER_DIRECTED_PATTERN.search(lower_text) is not None
has_user_directed(t) == \E i \in 1..Len(t) : t[i] = "would you"

\* SELF_RATING_PATTERN.search(lower_text) is not None: a token with "i" or
\* "i'm" as a word, or "personally"
has_self_rating(t) ==
    \E i \in 1..Len(t) : t[i] \in {"I choose", "I'm sorry, but", "personally"}

\* Mutation of ConflictingValues: the first value is taken whatever follows.
ConflictingValuesIgnored(unique_values) == FALSE

\* not (len(unique_values) == 1), summarize.py:164
ConflictingValues(unique_values) == Len(unique_values) # 1

\* Mutation of FallbackAmbiguous: a repeated value counts as a second one.
FallbackAmbiguousOnRepeat(fallback_matches) == Len(fallback_matches) > 1

\* len(unique_values) > 1, summarize.py:177-178
FallbackAmbiguous(fallback_matches) == Len(Distinct(fallback_matches)) > 1

\* Mutation of UserDirected: first-person language is not looked for.
UserDirectedAlone(t) == has_user_directed(t)

\* has_user_directed and not has_self_rating, summarize.py:186
UserDirected(t) == has_user_directed(t) /\ ~has_self_rating(t)

\* The bare-integer fallback (summarize.py:169-189) on text t, whose markdown
\* markers are stripped in s.
BareIntegerScan(t, s) ==
    LET fallback_matches == FallbackMatches(s)
        unique_values == Distinct(fallback_matches)
    IN  IF fallback_matches = <<>> THEN Return(None, 174)
        ELSE IF FallbackAmbiguous(fallback_matches) THEN Return(None, 179)
        ELSE IF UserDirected(t) THEN Return(None, 187)
        ELSE Return(unique_values[1], 189)

\* The loop over STRUCTURED_DECISION_PATTERNS from its k-th pattern on
\* (summarize.py:152-167), followed by the fallback.
RECURSIVE StructuredDecisionScan(_, _, _)
StructuredDecisionScan(k, t, s) ==
    IF k > Len(STRUCTURED_DECISION_PATTERNS) THEN BareIntegerScan(t, s)
    ELSE LET pattern == STRUCTURED_DECISION_PATTERNS[k]
             matches == MatchValues(pattern, s)
             unique_values == Distinct(matches)
         IN  IF \E i \in PatternMatches(pattern, s) : AMBIGUOUS_SUFFIX_PATTERN(s, i)
             THEN Return(None, 159)
             ELSE IF matches = <<>> THEN StructuredDecisionScan(k + 1, t, s)
             ELSE IF ConflictingValues(unique_values) THEN Return(None, 167)
             ELSE Return(unique_values[1], 165)

\* What follows the refusal test (summarize.py:143-189).
RatingSteps(t) ==
    LET sanitized_markdown_text == StripMarkdown(t) IN
    IF RatingMatches(sanitized_markdown_text) # {}
    THEN Return(sanitized_markdown_text[structured_match(sanitized_markdown_text) + 1],
                149)
    ELSE StructuredDecisionScan(1, t, sanitized_markdown_text)

\* extract_decision_code_from_text with the return statement taken
Extraction(t) ==
    IF t = <<>> THEN Return(None, 138)
    ELSE IF REFUSAL_PATTERN(t) THEN Return("refusal", 141)
    ELSE RatingSteps(t)

extract_decision_code_from_text(t) == Extraction(t).code

InitExtract ==
    /\ input_text \in Texts
    /\ extracted = Return(None, 0)
    /\ xpc = "called"
    /\ HttpIdle /\ ProbeIdle /\ SummarizeIdle /\ RegistryIdle /\ MockIdle

ExtractFromText ==
    /\ xpc = "called"
    /\ extracted' = Extraction(input_text)
    /\ xpc' = "returned"
    /\ UNCHANGED <<input_text, hvars, pvars, svars, rvars, mvars>>

SpecExtract == InitExtract /\ [][ExtractFromText]_vars

(***************************************************************************)
(* Summarize worker: extract_decision_code, classify_decision_with_llm and *)
(* run_summarize (cloud/workers/summarize.py)                              *)
(*                                                                         *)
(* A transcript is the list of its turns.  A turn is a JSON object that    *)
(* may or may not have a targetResponse; a targetResponse is a string (a   *)
(* text of tokens, as above), null or a number.  The reply of the fallback *)
(* model is a text over ReplyTokens, "\n" being a line break.              *)
(***************************************************************************)

MaxTurns == 2

MaxReplyTokens == 2

Str(value) == [type |-> "str", value |-> value]

JsonNull == [type |-> "null", value |-> <<>>]

JsonNumber == [type |-> "int", value |-> <<"4">>]

ResponseTexts ==
    {<<>>, <<"word">>, <<"4">>, <<"04">>, <<"Rating:">>, <<"I choose", "3">>,
     <<"and", "4">>, <<"must decline">>, <<"would you">>}

TargetResponses == {Str(t) : t \in ResponseTexts} \cup {JsonNull, JsonNumber}

Turns ==
    {[targetResponse |-> r] : r \in TargetResponses} \cup {[probePrompt |-> "prompt"]}

Transcripts == UNION {[1..n -> Turns] : n \in 0..MaxTurns}

\* turn.get("targetResponse", "")
TargetResponse(turn) ==
    IF "targetResponse" \in DOMAIN turn THEN turn.targetResponse ELSE Str(<<>>)

\* `if response:` : a non-empty string or a non-zero number.
Truthy(response) ==
    \/ response.type = "str" /\ response.value # <<>>
    \/ response.type = "int"

Returns(value) == [raised |-> FALSE, value |-> value]

Raises(exc) == [raised |-> TRUE, value |-> exc]

\* full_text after the first k turns.  `response + "\n"` raises TypeError for
\* a response that is not a string.  The line break that ends a response
\* separates its last word from the next response's first, as the blank
\* between two tokens of a text does.
RECURSIVE full_text(_, _)
full_text(turns, k) ==
    IF k = 0 THEN Returns(<<>>)
    ELSE LET before == full_text(turns, k - 1)
             response == TargetResponse(turns[k])
         IN  IF before.raised \/ ~Truthy(response) THEN before
             ELSE IF response.type # "str" THEN Raises("TypeError")
             ELSE Returns(before.value \o response.value)

\* `return result`, without the default.
ResultAsIs(result) == result

\* `return result if result else "other"`
ResultOrOther(result) == IF result # None THEN result ELSE "other"

extract_decision_code(turns) ==
    LET text == full_text(turns, Len(turns))
    IN  IF text.raised THEN text
        ELSE Returns(ResultOrOther(extract_decision_code_from_text(text.value)))

ReplyTokens == {"refusal", "Refusal", "other", "4", "04", "Decision:", "\n"}

Replies == UNION {[1..n -> ReplyTokens] : n \in 0..MaxReplyTokens}

\* What generate(LLM_FALLBACK_MODEL, ...) does: it returns a response or
\* raises LLMError, WorkerError or an exception of another class.
FallbackOutcomes ==
    {[kind |-> "response", content |-> c] : c \in Replies}
      \cup {[kind |-> k, content |-> <<>>] :
                k \in {"LLMError", "WorkerError", "RuntimeError"}}

\* str.strip() on a reply: line breaks at either end are white space.
RECURSIVE Strip(_)
Strip(content) ==
    IF content = <<>> THEN <<>>
    ELSE IF Head(content) = "\n" THEN Strip(Tail(content))
    ELSE IF content[Len(content)] = "\n"
         THEN Strip(SubSeq(content, 1, Len(content) - 1))
    ELSE content

\* str.splitlines()
RECURSIVE splitlines(_)
splitlines(content) ==
    IF content = <<>> THEN <<>>
    ELSE IF \E i \in 1..Len(content) : content[i] = "\n"
         THEN LET i == CHOOSE j \in 1..Len(content) :
                           /\ content[j] = "\n"
                           /\ \A h \in 1..(j - 1) : content[h] # "\n"
              IN  <<SubSeq(content, 1, i - 1)>>
                      \o splitlines(SubSeq(content, i + 1, Len(content)))
    ELSE <<content>>

\* str.lower()
Lower(tok) ==
    CASE tok = "Refusal" -> "refusal"
      [] tok = "Decision:" -> "decision:"
      [] OTHER -> tok

\* response.content.strip().splitlines()[0].strip().lower()
Normalized(content) ==
    LET lines == splitlines(Strip(content))
    IN  IF lines = <<>> THEN Raises("IndexError")
        ELSE LET line == Strip(lines[1])
             IN  Returns([i \in 1..Len(line) |-> Lower(line[i])])

\* re.search(r"\b([1-9]\d*)\b", normalized): the places it matches.
NumericMatches(normalized) ==
    {i \in 1..Len(normalized) : PositiveInteger(normalized[i])}

\* The body of the try statement of classify_decision_with_llm.
ClassifyReply(outcome) ==
    IF outcome.kind # "response" THEN Raises(outcome.kind)
    ELSE LET normalized == Normalized(outcome.content)
         IN  IF normalized.raised THEN normalized
             ELSE IF normalized.value = <<>> THEN Returns("other")
             ELSE IF normalized.value = <<"refusal">> THEN Returns("refusal")
             ELSE IF normalized.value = <<"other">> THEN Returns("other")
             ELSE IF NumericMatches(normalized.value) # {}
                  THEN LET first == CHOOSE i \in NumericMatches(normalized.value) :
                                        \A j \in NumericMatches(normalized.value) : i <= j
                       IN  Returns(normalized.value[first])
             ELSE Returns("other")

\* Only `except (WorkerError, LLMError)`, without `except Exception`.
CaughtIfKnown(exc) == exc \in {"WorkerError", "LLMError"}

\* `except (WorkerError, LLMError)` and `except Exception` together.
CaughtLocally(exc) == TRUE

classify_decision_with_llm(outcome) ==
    LET result == ClassifyReply(outcome)
    IN  IF result.raised /\ CaughtLocally(result.value) THEN Returns("other")
        ELSE result

\* `if llm_decision_code != "other"` taken always.
FallbackAlwaysResolved(code) == TRUE

\* `if llm_decision_code != "other"`
FallbackResolved(code) == code # "other"

\* The error result of run_summarize for an exception raised in its try.
Failure(exc) == [success |-> FALSE, error |-> exc]

\* Mutation of NeedsFallback: the classifier is asked whatever was extracted.
NeedsFallbackAlways(code) == TRUE

\* summarize.py:300, `if decision_code == "other":`
NeedsFallback(code) == code = "other"

InitSummarize ==
    /\ transcript_content \in Transcripts
    /\ decision_code = "none"
    /\ decision_source = "none"
    /\ llm_calls = <<>>
    /\ llm_decision_code = "none"
    /\ summary = [success |-> FALSE]
    /\ spc = "called"
    /\ HttpIdle /\ ProbeIdle /\ ExtractIdle /\ RegistryIdle /\ MockIdle

\* summarize.py:297-298; an exception goes to `except Exception` (351-357).
ExtractDecision ==
    /\ spc = "called"
    /\ LET result == extract_decision_code(transcript_content)
       IN  IF result.raised
           THEN /\ summary' = Failure(result.value)
                /\ spc' = "returned"
                /\ UNCHANGED <<decision_code, decision_source>>
           ELSE /\ decision_code' = result.value
                /\ decision_source' = "deterministic"
                /\ spc' = "extracted"
                /\ UNCHANGED summary
    /\ UNCHANGED <<transcript_content, llm_calls, llm_decision_code,
                   hvars, pvars, xvars, rvars, mvars>>

\* summarize.py:300-304
ClassifyFallback ==
    /\ spc = "extracted"
    /\ NeedsFallback(decision_code)
    /\ \E outcome \in FallbackOutcomes :
         /\ llm_calls' = Append(llm_calls, outcome)
         /\ LET result == classify_decision_with_llm(outcome)
            IN  IF result.raised
                THEN /\ summary' = Failure(result.value)
                     /\ spc' = "returned"
                     /\ UNCHANGED <<decision_code, decision_source,
                                    llm_decision_code>>
                ELSE /\ llm_decision_code' = result.value
                     /\ IF FallbackResolved(result.value)
                        THEN /\ decision_code' = result.value
                             /\ decision_source' = "llm"
                        ELSE UNCHANGED <<decision_code, decision_source>>
                     /\ spc' = "classified"
                     /\ UNCHANGED summary
    /\ UNCHANGED <<transcript_content, hvars, pvars, xvars, rvars, mvars>>

\* summarize.py:306-343
ReturnSummary ==
    /\ \/ spc = "extracted" /\ ~NeedsFallback(decision_code)
       \/ spc = "classified"
    /\ summary' = [success |-> TRUE,
                   decisionCode |-> decision_code,
                   decisionSource |-> decision_source,
                   decisionText |-> None]
    /\ spc' = "returned"
    /\ UNCHANGED <<transcript_content, decision_code, decision_source,
                   llm_calls, llm_decision_code, hvars, pvars, xvars, rvars, mvars>>

NextSummarize ==
    \/ ExtractDecision
    \/ ClassifyFallback
    \/ ReturnSummary

SpecSummarize == InitSummarize /\ [][NextSummarize]_vars

(***************************************************************************)
(* Adapter registry: AdapterRegistry (src/llm_adapters.py)                 *)
(*                                                                         *)
(* The registry is the dict _adapters, a function from provider names to   *)
(* adapter instances (named by their class).  One behaviour constructs a   *)
(* registry in an environment, then registers adapters and resolves models *)
(* in any order.                                                           *)
(***************************************************************************)

MaxRegisterCalls == 2

RegistryModels ==
    {"gpt-4o", "GPT-4", "text-davinci-003", "claude-3-opus", "grok-2",
     "gemini-pro", "llama-3", ""}

\* The credentials that may be present in the environment.
Credentials == {"OPENAI_API_KEY", "ANTHROPIC_API_KEY", "XAI_API_KEY"}

\* Values of VALUERANK_DEFAULT_PROVIDER; "" stands for unset or empty.
DefaultProviders == {"", "openai", "google", "nosuch"}

\* What callers pass to register.
RegisteredProviders == {"mock", "openai", "google"}

RegisteredAdapters == {"OpenAIAdapter", "CustomAdapter"}

\* self._adapters[provider] = adapter
RegisterIn(registry, provider, adapter) ==
    [p \in DOMAIN registry \cup {provider} |->
        IF p = provider THEN adapter ELSE registry[p]]

EmptyRegistry == [p \in {} |-> ""]

\* AdapterRegistry.__init__ without the registration of the mock adapter.
AdaptersAtInitNoMock(env) ==
    LET r1 == IF "OPENAI_API_KEY" \in env
                 THEN RegisterIn(EmptyRegistry, "openai", "OpenAIAdapter")
                 ELSE EmptyRegistry
        r2 == IF "ANTHROPIC_API_KEY" \in env
                 THEN RegisterIn(r1, "anthropic", "AnthropicAdapter") ELSE r1
    IN  IF "XAI_API_KEY" \in env THEN RegisterIn(r2, "xai", "XAIAdapter") ELSE r2

\* AdapterRegistry.__init__ in an environment holding the credentials env.
AdaptersAtInit(env) ==
    LET r0 == RegisterIn(EmptyRegistry, "mock", "MockLLMAdapter")
        r1 == IF "OPENAI_API_KEY" \in env
                 THEN RegisterIn(r0, "openai", "OpenAIAdapter") ELSE r0
        r2 == IF "ANTHROPIC_API_KEY" \in env
                 THEN RegisterIn(r1, "anthropic", "AnthropicAdapter") ELSE r1
    IN  IF "XAI_API_KEY" \in env THEN RegisterIn(r2, "xai", "XAIAdapter") ELSE r2

\* AdapterRegistry.resolve_for_model on the dict `registry`; reading a key the
\* dict does not have raises KeyError.
AdapterRegistry_resolve_for_model(registry, env_provider, model) ==
    LET provider == infer_provider_from_model(model) IN
    IF provider \in DOMAIN registry THEN Returns(registry[provider])
    ELSE IF env_provider # "" /\ env_provider \in DOMAIN registry
         THEN Returns(registry[env_provider])
    ELSE IF "mock" \in DOMAIN registry THEN Returns(registry["mock"])
    ELSE Raises("KeyError")

InitRegistry ==
    /\ \E env \in SUBSET Credentials : adapters = AdaptersAtInit(env)
    /\ default_provider \in DefaultProviders
    /\ register_calls = 0
    /\ resolved = "none"
    /\ rpc = "ready"
    /\ HttpIdle /\ ProbeIdle /\ ExtractIdle /\ SummarizeIdle /\ MockIdle

\* AdapterRegistry.register
Register ==
    /\ rpc \in {"ready", "resolved"}
    /\ register_calls < MaxRegisterCalls
    /\ \E provider \in RegisteredProviders, adapter \in RegisteredAdapters :
           adapters' = RegisterIn(adapters, provider, adapter)
    /\ register_calls' = register_calls + 1
    /\ rpc' = "ready"
    /\ UNCHANGED <<default_provider, resolved, hvars, pvars, xvars, svars, mvars>>

\* AdapterRegistry.resolve_for_model
ResolveForModel ==
    /\ rpc \in {"ready", "resolved"}
    /\ \E model \in RegistryModels :
           resolved' = [model |-> model,
                        result |-> AdapterRegistry_resolve_for_model(
                                       adapters, default_provider, model)]
    /\ rpc' = "resolved"
    /\ UNCHANGED <<adapters, default_provider, register_calls,
                   hvars, pvars, xvars, svars, mvars>>

NextRegistry ==
    \/ Register
    \/ ResolveForModel

SpecRegistry == InitRegistry /\ [][NextRegistry]_vars

(***************************************************************************)
(* Mock adapter: MockLLMAdapter.generate called repeatedly                 *)
(*                                                                         *)
(* generate keeps nothing between calls: it seeds a generator of its own   *)
(* (random.Random(seed)) from the digest of its arguments and reads the    *)
(* fixed list fallback_values.  A behaviour is a series of calls with      *)
(* arguments of any kind, each logged with the text it returned.           *)
(***************************************************************************)

MaxMockCalls == 3

MockConversations ==
    {<<[role |-> "system", content |-> SystemPrompt],
       [role |-> "user", content |-> <<"scenario_prompt", 3, 0>>]>>,
     <<[role |-> "user", content |-> <<"scenario_prompt", 3, 0>>],
       [role |-> "system", content |-> SystemPrompt]>>}

\* <<temperature (in tenths), run_seed>>
MockSettings == {<<0, 1>>, <<7, 1>>, <<7, 2>>}

\* <<max_tokens, response_format>>
MockLimits == {<<100, "None">>, <<DefaultMaxTokens, "json_object">>}

\* MockLLMAdapter.generate with all its parameters; max_tokens and
\* response_format are not read.
MockLLMAdapter_generate(model, messages, temperature, max_tokens, run_seed, response_format) ==
    MockGenerate(model, messages, temperature, max_tokens, run_seed)

InitMock ==
    /\ mock_log = <<>>
    /\ HttpIdle /\ ProbeIdle /\ ExtractIdle /\ SummarizeIdle /\ RegistryIdle

MockCall ==
    /\ Len(mock_log) < MaxMockCalls
    /\ \E model \in ModelNames, messages \in MockConversations,
          setting \in MockSettings, limit \in MockLimits :
          mock_log' = Append(mock_log,
              [model |-> model,
               messages |-> messages,
               temperature |-> setting[1],
               run_seed |-> setting[2],
               max_tokens |-> limit[1],
               response_format |-> limit[2],
               text |-> MockLLMAdapter_generate(model, messages, setting[1],
                                                limit[1], setting[2], limit[2])])
    /\ UNCHANGED <<hvars, pvars, xvars, svars, rvars>>

SpecMock == InitMock /\ [][MockCall]_vars

(***************************************************************************)
(* Properties of the retrying HTTP client (checked under Spec)             *)
(***************************************************************************)

Finished == hpc \in {"returned", "raised"}

AllOutcomes(cls) == \A i \in 1..Len(outcomes) : outcomes[i] = cls

\* How many of the first n POSTs had outcome class cls.
CountOutcomes(n, cls) == Cardinality({i \in 1..n : outcomes[i] = cls})

SumSeq(s) ==
    LET sum[i \in 0..Len(s)] == IF i = 0 THEN 0 ELSE sum[i - 1] + s[i]
    IN  sum[Len(s)]

\* 1 + 2 + ... + n
Triangle(n) == (n * (n + 1)) \div 2

\* POST number i was followed by another POST, or will be: the call goes on.
Retried(i) == i < Len(outcomes) \/ hpc = "loop"

\* C1: while every POST of a post_json call ends in a transport timeout, the
\* call goes on exactly until MAX_HTTP_RETRIES POSTs are issued; the sleep
\* before the k-th retry is RETRY_BACKOFF_SECONDS*k, so the sleeps add up to
\* RETRY_BACKOFF_SECONDS*(1+...+(MAX_HTTP_RETRIES-1)); the call then fails
\* with the TIMEOUT code.
C1_TimeoutBudget ==
    (impl = "post_json" /\ AllOutcomes("timeout")) =>
        /\ posts <= MAX_HTTP_RETRIES
        /\ (hpc = "loop") <=> (posts < MAX_HTTP_RETRIES)
        /\ Len(sleeps) = Min(posts, MAX_HTTP_RETRIES - 1)
        /\ \A k \in 1..Len(sleeps) : sleeps[k] = RETRY_BACKOFF_SECONDS * k
        /\ Finished =>
              /\ hpc = "raised"
              /\ error.code = "TIMEOUT"
              /\ posts = MAX_HTTP_RETRIES
              /\ SumSeq(sleeps) = RETRY_BACKOFF_SECONDS * Triangle(MAX_HTTP_RETRIES - 1)

C1_Witness ==
    /\ impl = "post_json"
    /\ AllOutcomes("timeout")
    /\ hpc = "raised"
    /\ posts = MAX_HTTP_RETRIES
    /\ Len(sleeps) = MAX_HTTP_RETRIES - 1

\* C2: while every response of a post_json call takes the rate-limit branch,
\* the call retries as long as fewer than MAX_RATE_LIMIT_RETRIES retries were
\* made, sleeping RATE_LIMIT_BACKOFF_SECONDS[i] (list index i, from 0) before
\* retry i+1, and fails with RATE_LIMIT on POST MAX_RATE_LIMIT_RETRIES+1.
C2_RateLimitBudget ==
    (impl = "post_json" /\ AllOutcomes("rate_limited")) =>
        /\ posts <= MAX_RATE_LIMIT_RETRIES + 1
        /\ (hpc = "loop") <=> (posts <= MAX_RATE_LIMIT_RETRIES)
        /\ Len(sleeps) = Min(posts, MAX_RATE_LIMIT_RETRIES)
        /\ \A i \in 1..Len(sleeps) : sleeps[i] = RATE_LIMIT_BACKOFF_SECONDS[i]
        /\ Finished =>
              /\ hpc = "raised"
              /\ error.code = "RATE_LIMIT"
              /\ posts = MAX_RATE_LIMIT_RETRIES + 1

C2_Witness ==
    /\ impl = "post_json"
    /\ AllOutcomes("rate_limited")
    /\ hpc = "raised"
    /\ posts = MAX_RATE_LIMIT_RETRIES + 1
    /\ sleeps = RATE_LIMIT_BACKOFF_SECONDS

\* The last POST returned a response with status >= 400 that
\* is_billing_exhaustion_response accepts.
LastIsBilling ==
    /\ last.kind = "response"
    /\ last.resp.status >= 400
    /\ is_billing_exhaustion_response(last.resp.status, Snippet(last.resp.body))

\* C3: a response with status >= 400 classified as billing-exhausted ends the
\* post_json call with AUTH_ERROR on that attempt: it is the last POST, and no
\* sleep follows it (every sleep made belongs to an earlier, retried POST),
\* with any values of the two retry counters.
C3_BillingFailsFast ==
    (impl = "post_json" /\ LastIsBilling) =>
        /\ hpc = "raised"
        /\ error.code = "AUTH_ERROR"
        /\ outcomes[Len(outcomes)] = "billing"
        /\ \A i \in 1..(Len(outcomes) - 1) : outcomes[i] # "billing"
        /\ Len(sleeps) = posts - 1
        /\ <<network_attempts, rate_limit_attempts>> = counters[Len(counters)]

C3_Witness ==
    /\ impl = "post_json"
    /\ LastIsBilling
    /\ network_attempts = MAX_HTTP_RETRIES - 1
    /\ rate_limit_attempts = MAX_RATE_LIMIT_RETRIES
    /\ last.resp.status = 429
    /\ error.code = "AUTH_ERROR"

\* The counters as each POST saw them, followed by their present values.
CountersAfter == Append(counters, <<network_attempts, rate_limit_attempts>>)

\* C4: the two retry budgets of post_json are independent: a response taking
\* the rate-limit branch is retried exactly when fewer than
\* MAX_RATE_LIMIT_RETRIES rate-limited responses came before it in this call,
\* however many network failures came before it; a rate-limit retry leaves
\* network_attempts as it was and a network retry leaves rate_limit_attempts
\* as it was.
C4_IndependentBudgets ==
    impl = "post_json" =>
        \A i \in 1..Len(outcomes) :
            /\ outcomes[i] = "rate_limited" =>
                  /\ Retried(i) <=>
                        CountOutcomes(i - 1, "rate_limited") < MAX_RATE_LIMIT_RETRIES
                  /\ CountersAfter[i + 1][1] = CountersAfter[i][1]
            /\ outcomes[i] \in {"timeout", "connection_error"} =>
                  CountersAfter[i + 1][2] = CountersAfter[i][2]

C4_Witness ==
    /\ impl = "post_json"
    /\ hpc = "raised"
    /\ error.code = "RATE_LIMIT"
    /\ network_attempts = MAX_HTTP_RETRIES - 1
    /\ rate_limit_attempts = MAX_RATE_LIMIT_RETRIES
    /\ outcomes[1] = "timeout"

LastIsResponse == last.kind = "response"

LastStatus == last.resp.status

LastSnippet == Snippet(last.resp.body)

LastOutcome == outcomes[Len(outcomes)]

\* C21: for every status >= 400 and every text holding a rate-limit phrase,
\* is_billing_exhaustion_response returns false, also when the text holds a
\* billing phrase; and it returns false for every status < 400 whatever the
\* text.  Stated for the body of the last response and for its snippet.
C21_BillingFalse ==
    LastIsResponse =>
        \A text \in {last.resp.body, LastSnippet} :
            /\ LastStatus < 400 =>
                  ~is_billing_exhaustion_response(LastStatus, text)
            /\ (LastStatus >= 400 /\ text.rl # "none") =>
                  ~is_billing_exhaustion_response(LastStatus, text)

C21_Witness ==
    /\ LastIsResponse
    /\ impl = "post_json"
    /\ LastStatus = 400
    /\ LastSnippet.rl = "head"
    /\ LastSnippet.bill = "head"
    /\ LastOutcome = "rate_limited"

C21_WitnessSuccess ==
    /\ LastIsResponse
    /\ LastStatus = 200
    /\ last.resp.body.bill = "head"
    /\ hpc = "returned"

\* C22 as stated: no (status, text) is classified both as rate-limited by
\* is_rate_limit_response (status 429 included) and as billing-exhausted by
\* is_billing_exhaustion_response, so post_json never fails fast as billing on
\* a response it would otherwise retry as rate-limited.
C22_NeverBoth ==
    LastIsResponse =>
        /\ ~(/\ is_rate_limit_response(LastStatus, LastSnippet)
             /\ is_billing_exhaustion_response(LastStatus, LastSnippet))
        /\ (impl = "post_json" /\ LastOutcome = "billing") =>
               ~is_rate_limit_response(LastStatus, LastSnippet)

\* C22 (amended): rate-limit phrases take precedence over billing
\* classification: a response with status >= 400 whose snippet holds a
\* rate-limit phrase is never classified as billing-exhausted and post_json
\* handles it as rate-limited, never failing with AUTH_ERROR on it; the texts
\* both functions accept are those of status 429 with a billing phrase and no
\* rate-limit phrase, and on them post_json fails fast with AUTH_ERROR.
C22_RateLimitPhrasePrecedence ==
    (impl = "post_json" /\ LastIsResponse /\ LastStatus >= 400) =>
        /\ LastSnippet.rl # "none" =>
              /\ ~is_billing_exhaustion_response(LastStatus, LastSnippet)
              /\ is_rate_limit_response(LastStatus, LastSnippet)
              /\ LastOutcome = "rate_limited"
              /\ error.code \in {"none", "RATE_LIMIT"}
        /\ (/\ is_rate_limit_response(LastStatus, LastSnippet)
            /\ is_billing_exhaustion_response(LastStatus, LastSnippet)) =>
              /\ LastStatus = 429
              /\ LastSnippet.rl = "none"
              /\ LastSnippet.bill # "none"
              /\ hpc = "raised"
              /\ error.code = "AUTH_ERROR"

C22_Witness ==
    /\ impl = "post_json"
    /\ LastIsResponse
    /\ LastStatus = 503
    /\ LastSnippet.rl = "head"
    /\ LastSnippet.bill = "head"
    /\ hpc = "loop"
    /\ rate_limit_attempts = 2

C22_WitnessBoth ==
    /\ impl = "post_json"
    /\ LastIsResponse
    /\ LastStatus = 429
    /\ LastSnippet.bill = "head"
    /\ error.code = "AUTH_ERROR"

\* The outcomes after which a client makes another POST.
RetriedOutcomes ==
    IF impl = "post_json"
    THEN {"timeout", "connection_error", "rate_limited"}
    ELSE {"timeout", "connection_error"}

\* C26: a call retries only after a transport timeout, a connection error or
\* (post_json) a rate-limited response, sleeping once before each retry; every
\* other outcome ends the call on the attempt where it occurs, with no sleep
\* and no further POST: in post_json a status >= 400 that is neither billing
\* nor rate-limit fails with the generic HTTP error, whose details are the
\* first characters of the body, at most SNIPPET_LEN; a success body that is
\* not JSON fails with INVALID_RESPONSE; any other request-level exception
\* fails with NETWORK_ERROR.
C26_RetryOnlyTransient ==
    /\ \A i \in 1..Len(outcomes) : Retried(i) => outcomes[i] \in RetriedOutcomes
    /\ Len(sleeps) = Cardinality({i \in 1..Len(outcomes) : Retried(i)})
    /\ (posts > 0 /\ LastOutcome \notin RetriedOutcomes /\ LastOutcome # "ok") =>
          /\ hpc = "raised"
          /\ Len(sleeps) = posts - 1
          /\ impl = "_post_json" => error.code = "AdapterHTTPError"
          /\ (impl = "post_json" /\ LastOutcome = "http_error") =>
                /\ error.code = "LLM_ERROR"
                /\ error.details_len = Min(last.resp.body.len, SNIPPET_LEN)
                /\ error.details_len <= SNIPPET_LEN
          /\ (impl = "post_json" /\ LastOutcome = "bad_json") =>
                error.code = "INVALID_RESPONSE"
          /\ (impl = "post_json" /\ LastOutcome = "request_exception") =>
                error.code = "NETWORK_ERROR"

C26_Witness ==
    /\ impl = "post_json"
    /\ posts = 3
    /\ LastIsResponse
    /\ LastStatus = 503
    /\ LastOutcome = "http_error"
    /\ last.resp.body.len = SNIPPET_LEN + 1
    /\ error.details_len = SNIPPET_LEN
    /\ outcomes[1] = "rate_limited"
    /\ outcomes[2] = "timeout"

C26_WitnessBadJson ==
    /\ impl = "post_json"
    /\ posts = 2
    /\ LastOutcome = "bad_json"
    /\ error.code = "INVALID_RESPONSE"

\* The bounds of one call.
C29_Bounded ==
    /\ posts <= MAX_HTTP_RETRIES + MAX_RATE_LIMIT_RETRIES
    /\ network_attempts <= MAX_HTTP_RETRIES
    /\ rate_limit_attempts <= MAX_RATE_LIMIT_RETRIES
    /\ error.code # "NETWORK_ERROR_AFTER_LOOP"
    /\ hpc = "raised" => error.code # "none"
    /\ Finished => posts >= 1

\* C29: post_json terminates for every sequence of attempt outcomes, after at
\* most MAX_HTTP_RETRIES + MAX_RATE_LIMIT_RETRIES POSTs, by returning the
\* parsed body or by raising from inside the loop; throughout the call
\* network_attempts <= MAX_HTTP_RETRIES and rate_limit_attempts <=
\* MAX_RATE_LIMIT_RETRIES, and the raise after the loop is never reached.
C29_Terminates == []C29_Bounded /\ <>Finished

C29_Witness ==
    /\ impl = "post_json"
    /\ posts = MAX_HTTP_RETRIES + MAX_RATE_LIMIT_RETRIES
    /\ hpc = "raised"
    /\ network_attempts = MAX_HTTP_RETRIES - 1
    /\ rate_limit_attempts = MAX_RATE_LIMIT_RETRIES

(***************************************************************************)
(* Properties of the probe orchestrator (checked under SpecProbe)          *)
(***************************************************************************)

NumTurns == Len(cfg.followup_items) + 1

\* Every generate call the resolved adapter of model position m received so
\* far raised AdapterHTTPError, and there was at least one.
HttpErrorsOnly(m) == adapter_log[m] = {"AdapterHTTPError"}

ByMock(turns) == \A k \in 1..Len(turns) : turns[k].target_response[1] = "mock_text"

\* C5: when the adapter resolved for a target model raises AdapterHTTPError
\* on every generate call, no scenario task of that model raises and the run
\* is not aborted in that model; every turn recorded is the mock adapter's;
\* the model's aggregated list, once written, holds every declared scenario
\* with its full list of turns; a finished run has written it.
C5_MockDegrade ==
    \A m \in 1..midx :
        HttpErrorsOnly(m) =>
            /\ m = midx =>
                  /\ ppc \notin {"unwinding", "raised"}
                  /\ \A p \in AllTasks :
                        /\ task[p].status # "raised"
                        /\ ByMock(task[p].turns)
                        /\ task[p].status = "done" => Len(task[p].turns) = NumTurns
            /\ m <= Len(aggregated) =>
                  /\ Len(aggregated[m]) = NumScenarios
                  /\ \A p \in AllTasks :
                        /\ aggregated[m][p].scenario_id = cfg.scenarios[p].scenario_id
                        /\ Len(aggregated[m][p].turns) = NumTurns
                        /\ ByMock(aggregated[m][p].turns)
            /\ ppc = "done" => m <= Len(aggregated)

C5_Witness ==
    /\ ppc = "done"
    /\ HttpErrorsOnly(1)
    /\ NumScenarios = MaxScenarios
    /\ NumTurns = MaxFollowups + 1
    /\ Len(aggregated[1]) = NumScenarios
    /\ File("run_manifest", 0, "", NoAnon) \in files

\* C6 (as claimed): no failure of an adapter's generate call, of whatever
\* kind, makes a scenario task raise or aborts run_probe.
C6_NoProviderFailureAborts ==
    /\ \A p \in DOMAIN task : task[p].status # "raised"
    /\ ppc \notin {"unwinding", "raised"}

C8_OutcomesHarvestedBeforeRaise ==
    ppc = "raised" =>
        \A p \in AllTasks : task[p].status = "done" => p \in Harvested

NumberedFromOne(turns) ==
    \A k \in 1..Len(turns) :
        /\ turns[k].turn_number = k
        /\ turns[k].prompt_label = k - 1

\* C9: the turns of a scenario are numbered 1, 2, ... in the order they were
\* recorded, the k-th turn being the one of the k-th prompt (the scenario
\* prompt, then the follow-ups in their order), and a finished scenario with
\* n follow-up prompts has exactly n + 1 of them, also once stored by id and
\* once aggregated.
C9_TurnNumbers ==
    /\ \A p \in DOMAIN task :
          /\ NumberedFromOne(task[p].turns)
          /\ task[p].status = "done" => Len(task[p].turns) = Len(cfg.followup_items) + 1
    /\ \A i \in 1..Len(scenario_results_map) :
          /\ NumberedFromOne(scenario_results_map[i].value.turns)
          /\ Len(scenario_results_map[i].value.turns) = Len(cfg.followup_items) + 1
    /\ \A m \in 1..Len(aggregated) : \A i \in 1..Len(aggregated[m]) :
          /\ NumberedFromOne(aggregated[m][i].turns)
          /\ Len(aggregated[m][i].turns) = Len(cfg.followup_items) + 1

C9_Witness ==
    /\ Len(cfg.followup_items) = 2
    /\ Len(aggregated) >= 1
    /\ [k \in 1..3 |-> aggregated[1][1].turns[k].turn_number] = <<1, 2, 3>>

\* The turn a generate call belongs to: its messages are the system message,
\* a user and an assistant message for each earlier turn, and the turn's
\* user message.
TurnOfCall(call) == Len(call.messages) \div 2

\* A fixed function of (run_id, scenario_id, anon_id, turn_number).
SeedFunction(rid, scenario_id, anon_id, turn_number) ==
    Digest(<<rid, scenario_id>> \o Tail(anon_id) \o <<turn_number>>)

\* C10: the seed of every generate call is one fixed function of (run_id,
\* scenario_id, anon_id, turn_number), whatever the model's name, the
\* conversation so far and the failures before it; a mock fallback call
\* directly follows a call of the resolved adapter that raised
\* AdapterHTTPError and has that call's seed, model, messages and temperature.
C10_SeedAndFallback ==
    \A p \in DOMAIN task :
        LET cs == task[p].calls IN
        \A i \in 1..Len(cs) :
            /\ cs[i].run_seed =
                  SeedFunction(run_id, cfg.scenarios[p].scenario_id,
                               model_mapping[midx].anon_id, TurnOfCall(cs[i]))
            /\ cs[i].callee = "mock_fallback" =>
                  /\ i > 1
                  /\ cs[i - 1].callee = "adapter"
                  /\ cs[i - 1].outcome = "AdapterHTTPError"
                  /\ cs[i].run_seed = cs[i - 1].run_seed
                  /\ cs[i].model = cs[i - 1].model
                  /\ cs[i].messages = cs[i - 1].messages
                  /\ cs[i].temperature = cs[i - 1].temperature

C10_Witness ==
    \E p \in DOMAIN task :
        /\ Len(task[p].calls) >= 4
        /\ task[p].calls[4].callee = "mock_fallback"
        /\ TurnOfCall(task[p].calls[4]) = 2
        /\ midx = 2

(***************************************************************************)
(* Properties of the decision extractor (checked under SpecExtract)        *)
(***************************************************************************)

Returned == xpc = "returned"

\* The text as the patterns after the refusal test see it.
Sanitized == StripMarkdown(input_text)

NoRefusal == ~REFUSAL_PATTERN(input_text)

HasRatingMarker == RatingMatches(Sanitized) # {}

\* The place of the first "Rating: N" marker.
FirstMarker ==
    CHOOSE i \in RatingMatches(Sanitized) : \A j \in RatingMatches(Sanitized) : i <= j

\* The patterns of the family that match somewhere, by their place in the list.
MatchingPatterns ==
    {k \in 1..Len(STRUCTURED_DECISION_PATTERNS) :
        PatternMatches(STRUCTURED_DECISION_PATTERNS[k], Sanitized) # {}}

FirstMatching == CHOOSE k \in MatchingPatterns : \A j \in MatchingPatterns : k <= j

\* The occurrences (places) matched by the k-th pattern, and their values.
Occurrences(k) == PatternMatches(STRUCTURED_DECISION_PATTERNS[k], Sanitized)

ValuesOf(k) == {Sanitized[i + 1] : i \in Occurrences(k)}

\* The occurrence at place i is followed by a connective and a second integer.
FollowedBySecondInteger(i) ==
    /\ i + 3 <= Len(Sanitized)
    /\ Sanitized[i + 2] = "and"
    /\ Sanitized[i + 3] \in {"3", "4"}

\* C11 (as claimed): a text with refusal phrasing gives "refusal" unless it
\* also yields a self-rating (first-person language, and a rating by the
\* steps after the refusal test), and then that rating is the result.
C11_RefusalUnlessSelfRating ==
    (Returned /\ REFUSAL_PATTERN(input_text)) =>
        extracted.code =
            IF has_self_rating(input_text) /\ RatingSteps(input_text).code # None
            THEN RatingSteps(input_text).code
            ELSE "refusal"

\* C12: for a text without refusal phrasing that contains a "Rating: N"
\* marker, the result is the N of the first marker, returned at the marker
\* step, whatever else the text contains.
C12_RatingMarkerFirst ==
    (Returned /\ NoRefusal /\ HasRatingMarker) =>
        extracted = Return(Sanitized[FirstMarker + 1], 149)

\* A second marker with another value, and a weaker phrasing or bare integer
\* with another value in front of the first marker.
C12_Witness ==
    /\ Returned /\ NoRefusal
    /\ \E i, j \in RatingMatches(Sanitized) :
          i < j /\ Sanitized[i + 1] # Sanitized[j + 1]
    /\ \E n \in 1..FirstMarker : PositiveInteger(Sanitized[n])
                                  /\ Sanitized[n] # Sanitized[FirstMarker + 1]
    /\ extracted.code = Sanitized[FirstMarker + 1]

\* C13 (as claimed): in a text that reaches the structured decision patterns
\* (no refusal phrasing, no "Rating: N" marker), whenever an occurrence
\* matched by some pattern of the family is followed by a connective and a
\* second integer, the result is no decision, returned from inside the loop
\* over the patterns.
C13_AmbiguousSuffixAnywhere ==
    (Returned /\ NoRefusal /\ ~HasRatingMarker
       /\ \E k \in MatchingPatterns : \E i \in Occurrences(k) :
              FollowedBySecondInteger(i)) =>
        extracted = Return(None, 159)

\* C13 (amended): for a text with no refusal phrasing and no "Rating: N"
\* marker, when an occurrence matched by the first pattern of the list that
\* matches the text at all is followed by a connective and a second integer,
\* the result is no decision, returned from inside the loop over the patterns.
C13_AmbiguousSuffixFirstPattern ==
    (Returned /\ NoRefusal /\ ~HasRatingMarker /\ MatchingPatterns # {}
       /\ \E i \in Occurrences(FirstMatching) : FollowedBySecondInteger(i)) =>
        extracted = Return(None, 159)

\* "I choose 3 and 4" after an unambiguous occurrence of the same pattern.
C13_Witness ==
    /\ Returned /\ NoRefusal /\ ~HasRatingMarker
    /\ MatchingPatterns = {2}
    /\ Cardinality(Occurrences(2)) = 2
    /\ \E i \in Occurrences(2) : FollowedBySecondInteger(i)
    /\ \E i \in Occurrences(2) : ~FollowedBySecondInteger(i)
    /\ extracted = Return(None, 159)

\* No occurrence of any pattern of the family is in the case of C13.
NoAmbiguousSuffix ==
    \A k \in MatchingPatterns : \A i \in Occurrences(k) : ~FollowedBySecondInteger(i)

FamilyValues == UNION {ValuesOf(k) : k \in MatchingPatterns}

\* C14 (as claimed): with no refusal phrasing and no "Rating: N" marker (and
\* outside the case of C13), the values of the occurrences of all patterns
\* of the family together decide: one distinct value is returned, two or more
\* give no decision without the bare-integer scan.
C14_FamilyValuesTogether ==
    (Returned /\ NoRefusal /\ ~HasRatingMarker /\ MatchingPatterns # {}
       /\ NoAmbiguousSuffix) =>
        IF Cardinality(FamilyValues) = 1
        THEN extracted = Return(CHOOSE v \in FamilyValues : TRUE, 165)
        ELSE extracted = Return(None, 167)

\* C14 (amended): with no refusal phrasing and no "Rating: N" marker, the
\* occurrences of the first pattern of the list that matches the text at all
\* decide (none of them being in the case of C13): if they carry one distinct
\* value it is returned, whatever later patterns match; if they carry two or
\* more, the result is no decision, without the bare-integer scan.
C14_FirstPatternValues ==
    (Returned /\ NoRefusal /\ ~HasRatingMarker /\ MatchingPatterns # {}
       /\ \A i \in Occurrences(FirstMatching) : ~FollowedBySecondInteger(i)) =>
        IF Cardinality(ValuesOf(FirstMatching)) = 1
        THEN extracted = Return(CHOOSE v \in ValuesOf(FirstMatching) : TRUE, 165)
        ELSE extracted = Return(None, 167)

\* Two occurrences of one pattern with two values: no decision at line 167,
\* although a bare integer scan would have had values to look at.
C14_Witness ==
    /\ Returned /\ NoRefusal /\ ~HasRatingMarker
    /\ MatchingPatterns = {2}
    /\ Cardinality(ValuesOf(2)) = 2
    /\ extracted = Return(None, 167)

\* The lines of the return statements of the bare-integer fallback.
FallbackLines == {174, 179, 187, 189}

\* The standalone positive integers left after the ranges are removed.
Remaining == FallbackMatches(Sanitized)

RemainingValues == {Remaining[i] : i \in 1..Len(Remaining)}

\* C15: the bare-integer fallback is reached exactly for a non-empty text
\* with no refusal phrasing, no "Rating: N" marker and no match of a
\* structured pattern; there, no remaining integer gives no decision, two or
\* more distinct values give no decision, and one single value, however often
\* repeated, is not taken for ambiguous: it is the result unless the text is
\* user-directed (C16).
C15_BareIntegerFallback ==
    Returned =>
        /\ extracted.line \in FallbackLines <=>
              (input_text # <<>> /\ NoRefusal /\ ~HasRatingMarker
                 /\ MatchingPatterns = {})
        /\ extracted.line \in FallbackLines =>
              /\ RemainingValues = {} => extracted = Return(None, 174)
              /\ Cardinality(RemainingValues) >= 2 => extracted = Return(None, 179)
              /\ Cardinality(RemainingValues) = 1 =>
                    \/ extracted = Return(CHOOSE v \in RemainingValues : TRUE, 189)
                    \/ extracted = Return(None, 187)

\* One value three times, with a range in the text: it is returned.
C15_Witness ==
    /\ Returned
    /\ Len(Remaining) >= 2
    /\ Cardinality(RemainingValues) = 1
    /\ Len(RemoveRanges(Sanitized)) < Len(Sanitized)
    /\ extracted.line = 189
    /\ extracted.code \in RemainingValues

\* C16: in the fallback with exactly one distinct value left, the result is
\* no decision exactly when the text has second-person phrasing and no
\* first-person rating language; otherwise it is the value, also when both
\* are present.
C16_UserDirected ==
    (Returned /\ extracted.line \in FallbackLines
       /\ Cardinality(RemainingValues) = 1) =>
        IF has_user_directed(input_text) /\ ~has_self_rating(input_text)
        THEN extracted = Return(None, 187)
        ELSE extracted = Return(CHOOSE v \in RemainingValues : TRUE, 189)

\* Second-person and first-person phrasing together: the value is returned.
C16_Witness ==
    /\ Returned
    /\ has_user_directed(input_text)
    /\ has_self_rating(input_text)
    /\ extracted.line = 189
    /\ extracted.code \in {"3", "4"}

(***************************************************************************)
(* Properties of the summarize worker (checked under SpecSummarize)        *)
(***************************************************************************)

\* The result of the deterministic extraction for the transcript at hand.
Deterministic == extract_decision_code(transcript_content)

Succeeded == spc = "returned" /\ summary.success

FallbackCalled == llm_calls # <<>>

\* The text heuristics' result on the responses taken together.
HeuristicResult ==
    extract_decision_code_from_text(
        full_text(transcript_content, Len(transcript_content)).value)

\* A decision code: a numeral that does not start with 0, "refusal", "other".
IsDecisionCode(code) ==
    \/ code \in {"refusal", "other"}
    \/ /\ Digits(code) # <<>>
       /\ Digits(code)[1] # 0

\* The first line of the reply that has anything but line breaks before it.
ReplyLine(content) ==
    LET start == CHOOSE i \in 1..(Len(content) + 1) :
                     /\ i = Len(content) + 1 \/ content[i] # "\n"
                     /\ \A h \in 1..(i - 1) : content[h] = "\n"
        stop == CHOOSE j \in (start - 1)..Len(content) :
                     /\ j = Len(content) \/ content[j + 1] = "\n"
                     /\ \A h \in start..j : content[h] # "\n"
    IN  SubSeq(content, start, stop)

EmptyReply(content) == \A i \in 1..Len(content) : content[i] = "\n"

\* The reply's line is not one of the words and holds no positive integer.
Unparsable(content) ==
    /\ ~EmptyReply(content)
    /\ ReplyLine(content) \notin {<<"refusal">>, <<"Refusal">>, <<"other">>}
    /\ \A i \in 1..Len(ReplyLine(content)) :
           ReplyLine(content)[i] \notin {"4"}

\* C17: in every successful result of run_summarize, decisionSource is "llm"
\* exactly when the deterministic extraction returned "other" and the LLM
\* fallback returned something other than "other", and decisionCode is then
\* the LLM's value; otherwise decisionSource is "deterministic" and
\* decisionCode is the deterministic result ("other" included).
C17_DecisionSource ==
    Succeeded =>
        LET resolved_by_llm ==
                /\ Deterministic = Returns("other")
                /\ FallbackCalled
                /\ llm_decision_code # "other"
        IN  IF resolved_by_llm
            THEN /\ summary.decisionSource = "llm"
                 /\ summary.decisionCode = llm_decision_code
            ELSE /\ summary.decisionSource = "deterministic"
                 /\ summary.decisionCode = Deterministic.value

C17_Witness ==
    /\ Succeeded
    /\ summary.decisionSource = "llm"
    /\ summary.decisionCode = "4"
    /\ Len(transcript_content) = 2

C17_WitnessKept ==
    /\ Succeeded
    /\ FallbackCalled
    /\ llm_decision_code = "other"
    /\ summary.decisionSource = "deterministic"

\* C18: classify_decision_with_llm never propagates an exception of the
\* fallback call: when generate fails with LLMError, WorkerError or an
\* unexpected exception, or the reply is empty or unparsable, it returns
\* "other".
C18_FallbackNeverPropagates ==
    FallbackCalled =>
        /\ spc \in {"classified", "returned"}
        /\ llm_decision_code # "none"
        /\ (spc = "returned" => summary.success)
        /\ LET outcome == llm_calls[1]
           IN  (\/ outcome.kind # "response"
                \/ EmptyReply(outcome.content)
                \/ Unparsable(outcome.content))
                   => llm_decision_code = "other"

C18_Witness ==
    /\ FallbackCalled
    /\ llm_calls[1].kind = "RuntimeError"
    /\ Succeeded
    /\ summary.decisionCode = "other"

C18_WitnessEmptyReply ==
    /\ FallbackCalled
    /\ llm_calls[1].kind = "response"
    /\ llm_calls[1].content = <<"\n">>
    /\ llm_decision_code = "other"

\* C19: every decision code the pipeline produces (extract_decision_code,
\* classify_decision_with_llm, the decisionCode of run_summarize) is the
\* decimal string of a positive integer without leading zero, "refusal" or
\* "other"; and extract_decision_code returns "other" exactly when the text
\* heuristics yield no decision, which they do for a transcript without
\* turns and for turns without a response.
C19_DecisionCodes ==
    /\ (spc \in {"extracted", "classified"} \/ Succeeded)
           => IsDecisionCode(decision_code)
    /\ spc = "classified" => IsDecisionCode(llm_decision_code)
    /\ Succeeded => IsDecisionCode(summary.decisionCode)
    /\ spc = "extracted" =>
           /\ (decision_code = "other") <=> (HeuristicResult = None)
           /\ (\A i \in 1..Len(transcript_content) :
                   "targetResponse" \notin DOMAIN transcript_content[i])
                 => decision_code = "other"

C19_Witness ==
    /\ spc = "extracted"
    /\ decision_code = "other"
    /\ Len(transcript_content) = 2
    /\ "targetResponse" \notin DOMAIN transcript_content[1]
    /\ "targetResponse" \in DOMAIN transcript_content[2]
    /\ transcript_content[2].targetResponse = Str(<<"04">>)

(***************************************************************************)
(* Properties of the adapter registry (checked under SpecRegistry)         *)
(***************************************************************************)

Resolved == rpc = "resolved"

\* The provider the model's name stands for.
Inferred == infer_provider_from_model(resolved.model)

IsRegistered(provider) == provider \in DOMAIN adapters

DefaultConfigured == default_provider # "" /\ IsRegistered(default_provider)

\* C20: after any sequence of register calls, resolve_for_model returns an
\* adapter for every model string and never fails: the adapter of the provider
\* inferred from the model name if that provider is registered, else the
\* adapter of the configured default provider if that one is registered, else
\* the adapter registered as "mock", which is always registered.
C20_ResolveNeverFails ==
    /\ IsRegistered("mock")
    /\ Resolved =>
         /\ ~resolved.result.raised
         /\ resolved.result.value =
                IF IsRegistered(Inferred) THEN adapters[Inferred]
                ELSE IF DefaultConfigured THEN adapters[default_provider]
                ELSE adapters["mock"]

C20_Witness ==
    /\ Resolved
    /\ register_calls = MaxRegisterCalls
    /\ resolved.model = "gemini-pro"
    /\ ~IsRegistered("google")
    /\ default_provider = "openai"
    /\ resolved.result = Returns("CustomAdapter")

C20_WitnessMock ==
    /\ Resolved
    /\ register_calls > 0
    /\ resolved.model = "claude-3-opus"
    /\ ~IsRegistered("anthropic")
    /\ default_provider = "nosuch"
    /\ resolved.result = Returns("MockLLMAdapter")

(***************************************************************************)
(* Further properties of the probe orchestrator (checked under SpecProbe)  *)
(***************************************************************************)

TranscriptArtifacts ==
    {f \in files : f.kind \in {"transcript", "aggregated_transcript"}}

TrueModelNames == {cfg.target_models[i] : i \in 1..NumModels}

\* C24: in the transcript artifacts run_probe writes for a target model (the
\* per-scenario transcript files with their names and front matter, the
\* aggregated transcript) the model is referenced only by its anonymized ID:
\* no artifact carries the true model name, so that two runs differing only in
\* that name write the same transcript artifacts.
C24_OnlyAnonymizedId ==
    ppc # "idle" => \A f \in TranscriptArtifacts : f.model \notin TrueModelNames

\* The tasks of the model in hand that were handed to the executor.
Dispatched == {p \in DOMAIN task : task[p].status # "none"}

MappingComplete == Len(model_mapping) = NumModels

\* C25 as stated: the mapping is complete before the first scenario task of
\* the run is dispatched and is never written afterwards.
C25_CompleteBeforeDispatch ==
    (ppc # "idle" /\ Dispatched # {}) => MappingComplete

\* The mapping's entries, as far as they are written.
MappingInOrder ==
    /\ Len(model_mapping) = midx
    /\ \A i \in 1..Len(model_mapping) :
          /\ model_mapping[i].anon_id = <<"anon_model_", i \div 100, (i \div 10) % 10, i % 10>>
          /\ model_mapping[i].true_model = cfg.target_models[i]
    /\ \A i, j \in 1..Len(model_mapping) :
          i # j => model_mapping[i].anon_id # model_mapping[j].anon_id

\* A step that writes the mapping adds one entry at its end, and is taken
\* while no scenario task is queued or running.
MappingWrittenBetweenModels ==
    model_mapping' # model_mapping =>
        /\ Len(model_mapping') = Len(model_mapping) + 1
        /\ SubSeq(model_mapping', 1, Len(model_mapping)) = model_mapping
        /\ \A p \in DOMAIN task : task[p].status \notin {"queued", "running"}
        /\ \A p \in DOMAIN task' : task'[p].status = "none"

\* C25 (amended): the entry of a target model is written before the first
\* scenario task of that model is dispatched, at a moment when no scenario
\* task is queued or running, and an entry once written is never changed or
\* removed; the mapping maps the i-th declared target model (i from 1) to
\* anon_model_<i as 3 digits>, so distinct positions get distinct IDs.
C25_EntryBeforeDispatch ==
    /\ []MappingInOrder
    /\ [][MappingWrittenBetweenModels]_vars

C25_Witness ==
    /\ ppc = "harvest"
    /\ midx = 2
    /\ Len(model_mapping) = 2
    /\ model_mapping[2].anon_id = <<"anon_model_", 0, 0, 2>>
    /\ Dispatched = AllTasks

SystemMessage == [role |-> "system", content |-> SystemPrompt]

\* The messages of turn k of scenario position p, from the turns recorded.
RECURSIVE History(_, _)
History(turns, k) ==
    IF k = 0 THEN <<SystemMessage>>
    ELSE History(turns, k - 1)
            \o <<[role |-> "user", content |-> turns[k].probe_prompt],
                 [role |-> "assistant", content |-> turns[k].target_response]>>

IsStrictPrefix(s, t) == Len(s) < Len(t) /\ SubSeq(t, 1, Len(s)) = s

\* C27: within one scenario the conversation is append-only and the turns run
\* one after another: the messages sent at turn k are the system message, then
\* for each earlier turn its user prompt followed by its recorded response,
\* then the user prompt of turn k; the messages of turn k are a strict prefix
\* of those of turn k + 1; a turn is invoked only when the responses of all
\* earlier turns are recorded.
C27_AppendOnlyConversation ==
    \A p \in DOMAIN task :
        LET t == task[p]
            prompts == prompt_sequence(cfg.scenarios[p])
        IN  t.status \in {"running", "done", "raised"} =>
              /\ t.status # "raised" => t.conversation = History(t.turns, Len(t.turns))
              /\ \A k \in 1..Len(t.turns) : t.turns[k].probe_prompt = prompts[k].prompt
              /\ \A c \in 1..Len(t.calls) :
                    LET k == Len(t.calls[c].messages) \div 2 IN
                    /\ k \in 1..(Len(t.turns) + 1)
                    /\ k = Len(t.turns) + 1 => t.status = "raised"
                    /\ t.calls[c].messages =
                          Append(History(t.turns, k - 1),
                                 [role |-> "user", content |-> prompts[k].prompt])
              /\ \A c, d \in 1..Len(t.calls) :
                    c < d =>
                       \/ t.calls[c].messages = t.calls[d].messages
                       \/ IsStrictPrefix(t.calls[c].messages, t.calls[d].messages)

C27_Witness ==
    /\ ppc # "idle"
    /\ \E p \in DOMAIN task :
          /\ task[p].status = "done"
          /\ Len(task[p].turns) = 3
          /\ Len(task[p].calls) = 4
          /\ Len(task[p].calls[4].messages) = 6
          /\ task[p].calls[4].messages[5].role = "assistant"
          /\ task[p].calls[4].messages[5].content = task[p].turns[2].target_response

\* C30: run_probe handles the target models one after another behind a join
\* barrier: the results of a model are reordered and its aggregated transcript
\* is written only after every scenario task of that model has finished, and
\* no scenario task of the next model is submitted before that, so the
\* scenario tasks at hand all belong to one model.
C30_JoinBarrier ==
    ppc # "idle" =>
        /\ ppc \in {"aggregate", "manifest", "done"} =>
              Completed = AllTasks /\ Harvested = AllTasks
        /\ (ppc = "next_model" /\ midx > 0) =>
              Completed = AllTasks /\ Harvested = AllTasks
        /\ Len(aggregated) =
              IF ppc \in {"next_model", "manifest", "done"} THEN midx ELSE midx - 1
        /\ \A m \in 1..Len(aggregated) : Len(aggregated[m]) = NumScenarios
        /\ \A p \in DOMAIN task :
              /\ task[p].status # "none" => Len(aggregated) = midx - 1 \/ Completed = AllTasks
              /\ \A c \in 1..Len(task[p].calls) :
                    task[p].calls[c].model = cfg.target_models[midx]

C30_Witness ==
    /\ ppc = "harvest"
    /\ midx = 2
    /\ Len(aggregated) = 1
    /\ cfg.thread_workers = 2
    /\ Cardinality(Running) = 2
    /\ \E p \in Running : task[p].calls # <<>>

\* C28: run_summarize invokes the LLM fallback classifier exactly once when
\* the deterministic extraction returned "other" and never when it returned
\* an integer code or "refusal" (or raised); the deterministic extraction
\* has always happened before the fallback is called.
C28_FallbackExactlyOnce ==
    /\ Len(llm_calls) <= 1
    /\ spc = "called" => ~FallbackCalled
    /\ FallbackCalled => Deterministic = Returns("other")
    /\ spc = "returned" =>
           (Len(llm_calls) = 1 <=> Deterministic = Returns("other"))

C28_Witness ==
    /\ Succeeded
    /\ Deterministic = Returns("other")
    /\ Len(llm_calls) = 1

C28_WitnessNoFallback ==
    /\ Succeeded
    /\ Deterministic # Returns("other")
    /\ llm_calls = <<>>

(***************************************************************************)
(* Properties of the mock adapter (checked under SpecMock)                 *)
(***************************************************************************)

SameInputs(a, b) ==
    /\ a.model = b.model
    /\ a.messages = b.messages
    /\ a.temperature = b.temperature
    /\ a.run_seed = b.run_seed

\* C23: MockLLMAdapter.generate is deterministic: two calls with the same
\* model, the same conversation (roles and contents in order), the same
\* temperature and the same seed return identical text, whatever calls were
\* made in between and whatever max_tokens and response_format are; the text
\* names two different values of fallback_values.
C23_MockDeterministic ==
    /\ \A i, j \in 1..Len(mock_log) :
          SameInputs(mock_log[i], mock_log[j]) => mock_log[i].text = mock_log[j].text
    /\ \A i \in 1..Len(mock_log) :
          /\ mock_log[i].text[2] \in 1..NumFallbackValues
          /\ mock_log[i].text[3] \in 1..NumFallbackValues
          /\ mock_log[i].text[2] # mock_log[i].text[3]

C23_Witness ==
    /\ Len(mock_log) = 3
    /\ SameInputs(mock_log[1], mock_log[3])
    /\ mock_log[1].max_tokens # mock_log[3].max_tokens
    /\ mock_log[1].response_format # mock_log[3].response_format
    /\ ~SameInputs(mock_log[1], mock_log[2])
    /\ mock_log[2].text # mock_log[1].text
    /\ mock_log[3].text = mock_log[1].text

====
